---- MODULE Spec2Model ----
(***************************************************************************)
(* Terraform architecture diagram generators (variants 00, 01, 03, 04) and  *)
(* the Checkly monitoring diagram generator (variant 02).                  *)
(* Configuration text -> resource inventory -> categorized resources ->    *)
(* node/edge graph handed to the renderer.                                 *)
(*                                                                         *)
(* A configuration text is modelled as the sequence of block headers it    *)
(* holds.  Each header records its keyword, its two labels, the comment    *)
(* context it stands in ("code", or inside a "hash", "slash" or "block"    *)
(* comment) and, for a module, the captured source reference.              *)
(* Strings that the code inspects by substring are given as character      *)
(* sequences (Chars).  Labels of nodes are tuples of their parts.          *)
(***************************************************************************)
EXTENDS Integers, Sequences, FiniteSets, TLC

VARIABLES
  variant,       \* which script runs: "v00", "v01", "v02", "v03", "v04"
  pc,            \* position of the run
  files,         \* the configuration unit at hand: the texts of its files
  fileIdx,       \* number of files of the unit parsed so far
  hcl,           \* outcome of the structured extractor on the last parsed file
  downgraded,    \* a fallback note was printed for a file of the unit
  resources,     \* the inventory returned by the last parse
  inventories,   \* the inventories returned for the files of the unit, in order
  all_resources, \* 03: the merged inventory of the directory
  graph,         \* what the last synthesis made: drawn, nodes, edges, components
  total,         \* number of units of the run
  unitNo,        \* number of units taken from the work list so far
  renderRaised   \* the renderer has raised in this run

vars == << variant, pc, files, fileIdx, hcl, downgraded, resources, inventories,
           all_resources, graph, total, unitNo, renderRaised >>

\* ---------------------------------------------------------------- bounds
MaxItems == 2
MaxFiles == 2
MaxUnits == 2
MaxBatchItems == 1

Variants == {"v00", "v01", "v02", "v03", "v04"}

\* ------------------------------------------------------- lookup tables
resource_mappings_03 ==
  << [type |-> "aws_instance", class |-> "EC2", category |-> "compute"],
     [type |-> "aws_ecs_service", class |-> "ECS", category |-> "compute"],
     [type |-> "aws_ecs_cluster", class |-> "ECS", category |-> "compute"],
     [type |-> "aws_lambda_function", class |-> "Lambda", category |-> "compute"],
     [type |-> "aws_autoscaling_group", class |-> "AutoScaling", category |-> "compute"],
     [type |-> "aws_db_instance", class |-> "RDS", category |-> "database"],
     [type |-> "aws_rds_cluster", class |-> "RDS", category |-> "database"],
     [type |-> "aws_dynamodb_table", class |-> "Dynamodb", category |-> "database"],
     [type |-> "aws_elasticache_cluster", class |-> "ElastiCache", category |-> "database"],
     [type |-> "aws_redshift_cluster", class |-> "Redshift", category |-> "database"],
     [type |-> "aws_lb", class |-> "ALB", category |-> "network"],
     [type |-> "aws_alb", class |-> "ALB", category |-> "network"],
     [type |-> "aws_elb", class |-> "ELB", category |-> "network"],
     [type |-> "aws_nlb", class |-> "NLB", category |-> "network"],
     [type |-> "aws_route53_record", class |-> "Route53", category |-> "network"],
     [type |-> "aws_cloudfront_distribution", class |-> "CloudFront", category |-> "network"],
     [type |-> "aws_vpc", class |-> "VPC", category |-> "network"],
     [type |-> "aws_subnet", class |-> "PrivateSubnet", category |-> "network"],
     [type |-> "aws_s3_bucket", class |-> "S3", category |-> "storage"],
     [type |-> "aws_ebs_volume", class |-> "EBS", category |-> "storage"],
     [type |-> "aws_efs_file_system", class |-> "EFS", category |-> "storage"],
     [type |-> "aws_waf_web_acl", class |-> "WAF", category |-> "security"],
     [type |-> "aws_iam_role", class |-> "IAM", category |-> "security"],
     [type |-> "aws_iam_policy", class |-> "IAM", category |-> "security"],
     [type |-> "aws_cognito_user_pool", class |-> "Cognito", category |-> "security"],
     [type |-> "aws_sqs_queue", class |-> "SQS", category |-> "other"],
     [type |-> "aws_sns_topic", class |-> "SNS", category |-> "other"],
     [type |-> "aws_cloudwatch_log_group", class |-> "Cloudwatch", category |-> "other"],
     [type |-> "kubernetes_deployment", class |-> "Deployment", category |-> "compute"],
     [type |-> "kubernetes_service", class |-> "Service", category |-> "network"],
     [type |-> "kubernetes_ingress", class |-> "Ingress", category |-> "network"],
     [type |-> "kubernetes_pod", class |-> "Pod", category |-> "compute"],
     [type |-> "docker_container", class |-> "Rack", category |-> "compute"],
     [type |-> "docker_image", class |-> "Rack", category |-> "compute"] >>

get_resource_mapping ==
  << [type |-> "aws_instance", class |-> "EC2", category |-> "compute"],
     [type |-> "aws_lambda_function", class |-> "Lambda", category |-> "compute"],
     [type |-> "aws_ecs_service", class |-> "ECS", category |-> "compute"],
     [type |-> "aws_ecs_cluster", class |-> "ECS", category |-> "compute"],
     [type |-> "aws_autoscaling_group", class |-> "AutoScaling", category |-> "compute"],
     [type |-> "aws_launch_configuration", class |-> "AutoScaling", category |-> "compute"],
     [type |-> "aws_launch_template", class |-> "AutoScaling", category |-> "compute"],
     [type |-> "aws_db_instance", class |-> "RDS", category |-> "database"],
     [type |-> "aws_rds_cluster", class |-> "RDS", category |-> "database"],
     [type |-> "aws_dynamodb_table", class |-> "Dynamodb", category |-> "database"],
     [type |-> "aws_elasticache_cluster", class |-> "ElastiCache", category |-> "database"],
     [type |-> "aws_elasticache_replication_group", class |-> "ElastiCache", category |-> "database"],
     [type |-> "aws_redshift_cluster", class |-> "Redshift", category |-> "database"],
     [type |-> "aws_lb", class |-> "ALB", category |-> "network"],
     [type |-> "aws_alb", class |-> "ALB", category |-> "network"],
     [type |-> "aws_elb", class |-> "ELB", category |-> "network"],
     [type |-> "aws_lb_target_group", class |-> "ALB", category |-> "network"],
     [type |-> "aws_route53_record", class |-> "Route53", category |-> "network"],
     [type |-> "aws_route53_zone", class |-> "Route53", category |-> "network"],
     [type |-> "aws_cloudfront_distribution", class |-> "CloudFront", category |-> "network"],
     [type |-> "aws_vpc", class |-> "VPC", category |-> "network"],
     [type |-> "aws_subnet", class |-> "PrivateSubnet", category |-> "network"],
     [type |-> "aws_internet_gateway", class |-> "VPC", category |-> "network"],
     [type |-> "aws_nat_gateway", class |-> "VPC", category |-> "network"],
     [type |-> "aws_route_table", class |-> "VPC", category |-> "network"],
     [type |-> "aws_s3_bucket", class |-> "S3", category |-> "storage"],
     [type |-> "aws_ebs_volume", class |-> "EBS", category |-> "storage"],
     [type |-> "aws_efs_file_system", class |-> "EFS", category |-> "storage"],
     [type |-> "aws_security_group", class |-> "WAF", category |-> "security"],
     [type |-> "aws_waf_web_acl", class |-> "WAF", category |-> "security"],
     [type |-> "aws_iam_role", class |-> "IAM", category |-> "security"],
     [type |-> "aws_iam_policy", class |-> "IAM", category |-> "security"],
     [type |-> "aws_iam_user", class |-> "IAM", category |-> "security"],
     [type |-> "aws_cognito_user_pool", class |-> "Cognito", category |-> "security"],
     [type |-> "aws_sqs_queue", class |-> "SQS", category |-> "integration"],
     [type |-> "aws_sns_topic", class |-> "SNS", category |-> "integration"],
     [type |-> "aws_cloudwatch_log_group", class |-> "Cloudwatch", category |-> "monitoring"],
     [type |-> "aws_cloudwatch_metric_alarm", class |-> "Cloudwatch", category |-> "monitoring"],
     [type |-> "module_vpc", class |-> "VPC", category |-> "network"],
     [type |-> "module_web_app", class |-> "General", category |-> "application"],
     [type |-> "module_database", class |-> "RDS", category |-> "database"],
     [type |-> "module_security", class |-> "WAF", category |-> "security"],
     [type |-> "variable", class |-> "General", category |-> "config"],
     [type |-> "output", class |-> "General", category |-> "config"],
     [type |-> "provider", class |-> "General", category |-> "config"] >>

category_map_00 ==
  << [type |-> "aws_vpc", category |-> "networking"],
     [type |-> "aws_subnet", category |-> "networking"],
     [type |-> "aws_internet_gateway", category |-> "networking"],
     [type |-> "aws_nat_gateway", category |-> "networking"],
     [type |-> "aws_route_table", category |-> "networking"],
     [type |-> "aws_security_group", category |-> "networking"],
     [type |-> "aws_instance", category |-> "compute"],
     [type |-> "aws_launch_template", category |-> "compute"],
     [type |-> "aws_autoscaling_group", category |-> "compute"],
     [type |-> "aws_lambda_function", category |-> "compute"],
     [type |-> "aws_ecs_service", category |-> "compute"],
     [type |-> "aws_ecs_cluster", category |-> "compute"],
     [type |-> "aws_lb", category |-> "networking"],
     [type |-> "aws_alb", category |-> "networking"],
     [type |-> "aws_elb", category |-> "networking"],
     [type |-> "aws_lb_target_group", category |-> "networking"],
     [type |-> "aws_db_instance", category |-> "database"],
     [type |-> "aws_rds_cluster", category |-> "database"],
     [type |-> "aws_dynamodb_table", category |-> "database"],
     [type |-> "aws_elasticache_cluster", category |-> "database"],
     [type |-> "aws_wafv2_web_acl", category |-> "security"],
     [type |-> "aws_waf_web_acl", category |-> "security"],
     [type |-> "aws_iam_role", category |-> "security"],
     [type |-> "aws_iam_policy", category |-> "security"],
     [type |-> "aws_s3_bucket", category |-> "storage"],
     [type |-> "aws_cloudwatch_log_group", category |-> "monitoring"],
     [type |-> "aws_sqs_queue", category |-> "integration"],
     [type |-> "aws_sns_topic", category |-> "integration"] >>

category_map_01 ==
  << [type |-> "aws_route53_record", category |-> "dns"],
     [type |-> "aws_route53_zone", category |-> "dns"],
     [type |-> "aws_wafv2_web_acl", category |-> "security"],
     [type |-> "aws_waf_web_acl", category |-> "security"],
     [type |-> "aws_security_group", category |-> "security"],
     [type |-> "aws_security_group_rule", category |-> "security"],
     [type |-> "aws_iam_role", category |-> "security"],
     [type |-> "aws_iam_policy", category |-> "security"],
     [type |-> "aws_iam_user", category |-> "security"],
     [type |-> "aws_iam_group", category |-> "security"],
     [type |-> "aws_lb", category |-> "load_balancer"],
     [type |-> "aws_alb", category |-> "load_balancer"],
     [type |-> "aws_elb", category |-> "load_balancer"],
     [type |-> "aws_lb_target_group", category |-> "load_balancer"],
     [type |-> "aws_lb_listener", category |-> "load_balancer"],
     [type |-> "aws_instance", category |-> "compute"],
     [type |-> "aws_launch_template", category |-> "compute"],
     [type |-> "aws_launch_configuration", category |-> "compute"],
     [type |-> "aws_autoscaling_group", category |-> "compute"],
     [type |-> "aws_lambda_function", category |-> "compute"],
     [type |-> "aws_ecs_service", category |-> "compute"],
     [type |-> "aws_ecs_cluster", category |-> "compute"],
     [type |-> "aws_ecs_task_definition", category |-> "compute"],
     [type |-> "aws_db_instance", category |-> "database"],
     [type |-> "aws_rds_cluster", category |-> "database"],
     [type |-> "aws_rds_cluster_instance", category |-> "database"],
     [type |-> "aws_dynamodb_table", category |-> "database"],
     [type |-> "aws_elasticache_cluster", category |-> "database"],
     [type |-> "aws_elasticache_replication_group", category |-> "database"],
     [type |-> "aws_s3_bucket", category |-> "storage"],
     [type |-> "aws_s3_bucket_policy", category |-> "storage"],
     [type |-> "aws_s3_bucket_notification", category |-> "storage"],
     [type |-> "aws_vpc", category |-> "networking"],
     [type |-> "aws_subnet", category |-> "networking"],
     [type |-> "aws_internet_gateway", category |-> "networking"],
     [type |-> "aws_nat_gateway", category |-> "networking"],
     [type |-> "aws_route_table", category |-> "networking"],
     [type |-> "aws_route", category |-> "networking"],
     [type |-> "aws_cloudwatch_log_group", category |-> "monitoring"],
     [type |-> "aws_cloudwatch_metric_alarm", category |-> "monitoring"],
     [type |-> "aws_sqs_queue", category |-> "integration"],
     [type |-> "aws_sns_topic", category |-> "integration"],
     [type |-> "aws_sns_subscription", category |-> "integration"] >>

Chars ==
  ("api" :> <<"a","p","i">>) @@
  ("await page.goto(danube)" :> <<"a","w","a","i","t"," ","p","a","g","e",".","g","o","t","o","(","d","a","n","u","b","e",")">>) @@
  ("aws_" :> <<"a","w","s","_">>) @@
  ("aws_alb" :> <<"a","w","s","_","a","l","b">>) @@
  ("aws_autoscaling_group" :> <<"a","w","s","_","a","u","t","o","s","c","a","l","i","n","g","_","g","r","o","u","p">>) @@
  ("aws_cloudfront_distribution" :> <<"a","w","s","_","c","l","o","u","d","f","r","o","n","t","_","d","i","s","t","r","i","b","u","t","i","o","n">>) @@
  ("aws_cloudwatch_log_group" :> <<"a","w","s","_","c","l","o","u","d","w","a","t","c","h","_","l","o","g","_","g","r","o","u","p">>) @@
  ("aws_cloudwatch_metric_alarm" :> <<"a","w","s","_","c","l","o","u","d","w","a","t","c","h","_","m","e","t","r","i","c","_","a","l","a","r","m">>) @@
  ("aws_cognito_user_pool" :> <<"a","w","s","_","c","o","g","n","i","t","o","_","u","s","e","r","_","p","o","o","l">>) @@
  ("aws_db_instance" :> <<"a","w","s","_","d","b","_","i","n","s","t","a","n","c","e">>) @@
  ("aws_db_subnet_group" :> <<"a","w","s","_","d","b","_","s","u","b","n","e","t","_","g","r","o","u","p">>) @@
  ("aws_dynamodb_table" :> <<"a","w","s","_","d","y","n","a","m","o","d","b","_","t","a","b","l","e">>) @@
  ("aws_ebs_volume" :> <<"a","w","s","_","e","b","s","_","v","o","l","u","m","e">>) @@
  ("aws_ecs_cluster" :> <<"a","w","s","_","e","c","s","_","c","l","u","s","t","e","r">>) @@
  ("aws_ecs_service" :> <<"a","w","s","_","e","c","s","_","s","e","r","v","i","c","e">>) @@
  ("aws_ecs_task_definition" :> <<"a","w","s","_","e","c","s","_","t","a","s","k","_","d","e","f","i","n","i","t","i","o","n">>) @@
  ("aws_efs_file_system" :> <<"a","w","s","_","e","f","s","_","f","i","l","e","_","s","y","s","t","e","m">>) @@
  ("aws_elasticache_cluster" :> <<"a","w","s","_","e","l","a","s","t","i","c","a","c","h","e","_","c","l","u","s","t","e","r">>) @@
  ("aws_elasticache_replication_group" :> <<"a","w","s","_","e","l","a","s","t","i","c","a","c","h","e","_","r","e","p","l","i","c","a","t","i","o","n","_","g","r","o","u","p">>) @@
  ("aws_elb" :> <<"a","w","s","_","e","l","b">>) @@
  ("aws_iam_group" :> <<"a","w","s","_","i","a","m","_","g","r","o","u","p">>) @@
  ("aws_iam_policy" :> <<"a","w","s","_","i","a","m","_","p","o","l","i","c","y">>) @@
  ("aws_iam_role" :> <<"a","w","s","_","i","a","m","_","r","o","l","e">>) @@
  ("aws_iam_user" :> <<"a","w","s","_","i","a","m","_","u","s","e","r">>) @@
  ("aws_instance" :> <<"a","w","s","_","i","n","s","t","a","n","c","e">>) @@
  ("aws_internet_gateway" :> <<"a","w","s","_","i","n","t","e","r","n","e","t","_","g","a","t","e","w","a","y">>) @@
  ("aws_lambda_function" :> <<"a","w","s","_","l","a","m","b","d","a","_","f","u","n","c","t","i","o","n">>) @@
  ("aws_launch_configuration" :> <<"a","w","s","_","l","a","u","n","c","h","_","c","o","n","f","i","g","u","r","a","t","i","o","n">>) @@
  ("aws_launch_template" :> <<"a","w","s","_","l","a","u","n","c","h","_","t","e","m","p","l","a","t","e">>) @@
  ("aws_lb" :> <<"a","w","s","_","l","b">>) @@
  ("aws_lb_listener" :> <<"a","w","s","_","l","b","_","l","i","s","t","e","n","e","r">>) @@
  ("aws_lb_target_group" :> <<"a","w","s","_","l","b","_","t","a","r","g","e","t","_","g","r","o","u","p">>) @@
  ("aws_nat_gateway" :> <<"a","w","s","_","n","a","t","_","g","a","t","e","w","a","y">>) @@
  ("aws_nlb" :> <<"a","w","s","_","n","l","b">>) @@
  ("aws_rds_cluster" :> <<"a","w","s","_","r","d","s","_","c","l","u","s","t","e","r">>) @@
  ("aws_rds_cluster_instance" :> <<"a","w","s","_","r","d","s","_","c","l","u","s","t","e","r","_","i","n","s","t","a","n","c","e">>) @@
  ("aws_redshift_cluster" :> <<"a","w","s","_","r","e","d","s","h","i","f","t","_","c","l","u","s","t","e","r">>) @@
  ("aws_redshift_cluster_iam_roles" :> <<"a","w","s","_","r","e","d","s","h","i","f","t","_","c","l","u","s","t","e","r","_","i","a","m","_","r","o","l","e","s">>) @@
  ("aws_route" :> <<"a","w","s","_","r","o","u","t","e">>) @@
  ("aws_route53_record" :> <<"a","w","s","_","r","o","u","t","e","5","3","_","r","e","c","o","r","d">>) @@
  ("aws_route53_zone" :> <<"a","w","s","_","r","o","u","t","e","5","3","_","z","o","n","e">>) @@
  ("aws_route_table" :> <<"a","w","s","_","r","o","u","t","e","_","t","a","b","l","e">>) @@
  ("aws_s3_bucket" :> <<"a","w","s","_","s","3","_","b","u","c","k","e","t">>) @@
  ("aws_s3_bucket_notification" :> <<"a","w","s","_","s","3","_","b","u","c","k","e","t","_","n","o","t","i","f","i","c","a","t","i","o","n">>) @@
  ("aws_s3_bucket_policy" :> <<"a","w","s","_","s","3","_","b","u","c","k","e","t","_","p","o","l","i","c","y">>) @@
  ("aws_security_group" :> <<"a","w","s","_","s","e","c","u","r","i","t","y","_","g","r","o","u","p">>) @@
  ("aws_security_group_rule" :> <<"a","w","s","_","s","e","c","u","r","i","t","y","_","g","r","o","u","p","_","r","u","l","e">>) @@
  ("aws_sns_subscription" :> <<"a","w","s","_","s","n","s","_","s","u","b","s","c","r","i","p","t","i","o","n">>) @@
  ("aws_sns_topic" :> <<"a","w","s","_","s","n","s","_","t","o","p","i","c">>) @@
  ("aws_sqs_queue" :> <<"a","w","s","_","s","q","s","_","q","u","e","u","e">>) @@
  ("aws_subnet" :> <<"a","w","s","_","s","u","b","n","e","t">>) @@
  ("aws_vpc" :> <<"a","w","s","_","v","p","c">>) @@
  ("aws_waf_web_acl" :> <<"a","w","s","_","w","a","f","_","w","e","b","_","a","c","l">>) @@
  ("aws_wafv2_web_acl" :> <<"a","w","s","_","w","a","f","v","2","_","w","e","b","_","a","c","l">>) @@
  ("compute" :> <<"c","o","m","p","u","t","e">>) @@
  ("danube" :> <<"d","a","n","u","b","e">>) @@
  ("data_aws_ami" :> <<"d","a","t","a","_","a","w","s","_","a","m","i">>) @@
  ("database" :> <<"d","a","t","a","b","a","s","e">>) @@
  ("db_" :> <<"d","b","_">>) @@
  ("db_instance" :> <<"d","b","_","i","n","s","t","a","n","c","e">>) @@
  ("docker_container" :> <<"d","o","c","k","e","r","_","c","o","n","t","a","i","n","e","r">>) @@
  ("docker_image" :> <<"d","o","c","k","e","r","_","i","m","a","g","e">>) @@
  ("dynamodb" :> <<"d","y","n","a","m","o","d","b">>) @@
  ("ecs" :> <<"e","c","s">>) @@
  ("elasticache" :> <<"e","l","a","s","t","i","c","a","c","h","e">>) @@
  ("eu-west-1" :> <<"e","u","-","w","e","s","t","-","1">>) @@
  ("https://Danube-webshop.herokuapp.com" :> <<"h","t","t","p","s",":","/","/","D","a","n","u","b","e","-","w","e","b","s","h","o","p",".","h","e","r","o","k","u","a","p","p",".","c","o","m">>) @@
  ("https://api.example.com/users" :> <<"h","t","t","p","s",":","/","/","a","p","i",".","e","x","a","m","p","l","e",".","c","o","m","/","u","s","e","r","s">>) @@
  ("https://example.com" :> <<"h","t","t","p","s",":","/","/","e","x","a","m","p","l","e",".","c","o","m">>) @@
  ("iam" :> <<"i","a","m">>) @@
  ("instance" :> <<"i","n","s","t","a","n","c","e">>) @@
  ("kubernetes_deployment" :> <<"k","u","b","e","r","n","e","t","e","s","_","d","e","p","l","o","y","m","e","n","t">>) @@
  ("kubernetes_ingress" :> <<"k","u","b","e","r","n","e","t","e","s","_","i","n","g","r","e","s","s">>) @@
  ("kubernetes_pod" :> <<"k","u","b","e","r","n","e","t","e","s","_","p","o","d">>) @@
  ("kubernetes_service" :> <<"k","u","b","e","r","n","e","t","e","s","_","s","e","r","v","i","c","e">>) @@
  ("local_file" :> <<"l","o","c","a","l","_","f","i","l","e">>) @@
  ("module_aws" :> <<"m","o","d","u","l","e","_","a","w","s">>) @@
  ("module_database" :> <<"m","o","d","u","l","e","_","d","a","t","a","b","a","s","e">>) @@
  ("module_net" :> <<"m","o","d","u","l","e","_","n","e","t">>) @@
  ("module_security" :> <<"m","o","d","u","l","e","_","s","e","c","u","r","i","t","y">>) @@
  ("module_vpc" :> <<"m","o","d","u","l","e","_","v","p","c">>) @@
  ("module_web-app" :> <<"m","o","d","u","l","e","_","w","e","b","-","a","p","p">>) @@
  ("module_web_app" :> <<"m","o","d","u","l","e","_","w","e","b","_","a","p","p">>) @@
  ("network" :> <<"n","e","t","w","o","r","k">>) @@
  ("null_resource" :> <<"n","u","l","l","_","r","e","s","o","u","r","c","e">>) @@
  ("output" :> <<"o","u","t","p","u","t">>) @@
  ("provider" :> <<"p","r","o","v","i","d","e","r">>) @@
  ("random_id" :> <<"r","a","n","d","o","m","_","i","d">>) @@
  ("random_pet" :> <<"r","a","n","d","o","m","_","p","e","t">>) @@
  ("rds" :> <<"r","d","s">>) @@
  ("s3" :> <<"s","3">>) @@
  ("security" :> <<"s","e","c","u","r","i","t","y">>) @@
  ("sns" :> <<"s","n","s">>) @@
  ("storage" :> <<"s","t","o","r","a","g","e">>) @@
  ("subnet" :> <<"s","u","b","n","e","t">>) @@
  ("time_sleep" :> <<"t","i","m","e","_","s","l","e","e","p">>) @@
  ("tls_private_key" :> <<"t","l","s","_","p","r","i","v","a","t","e","_","k","e","y">>) @@
  ("variable" :> <<"v","a","r","i","a","b","l","e">>) @@
  ("vpc" :> <<"v","p","c">>) @@
  ("waf" :> <<"w","a","f">>)

\* ---------------------------------------------------------------- helpers
BoundedSeq(S, n) == UNION { [1..k -> S] : k \in 0..n }

Range(s) == { s[i] : i \in DOMAIN s }

\* Python's  a in b  on strings
IsSubstr(a, b) ==
  \E i \in 0..(Len(b) - Len(a)) : \A j \in 1..Len(a) : b[i + j] = a[j]

RECURSIVE Flatten(_)
Flatten(ss) == IF ss = << >> THEN << >> ELSE Head(ss) \o Flatten(Tail(ss))

\* Python's  s.replace(old, '')  on character sequences
RECURSIVE Remove(_, _)
Remove(s, old) ==
  IF Len(s) < Len(old) THEN s
  ELSE IF SubSeq(s, 1, Len(old)) = old
       THEN Remove(SubSeq(s, Len(old) + 1, Len(s)), old)
       ELSE << Head(s) >> \o Remove(Tail(s), old)

\* the string of a character sequence
RECURSIVE Join(_)
Join(cs) == IF cs = << >> THEN "" ELSE Head(cs) \o Join(Tail(cs))

Letters == << "a", "b", "c", "d", "e", "f", "g", "h", "i", "j", "k", "l", "m",
             "n", "o", "p", "q", "r", "s", "t", "u", "v", "w", "x", "y", "z" >>

Capitals == << "A", "B", "C", "D", "E", "F", "G", "H", "I", "J", "K", "L", "M",
              "N", "O", "P", "Q", "R", "S", "T", "U", "V", "W", "X", "Y", "Z" >>

IsLetter(c) == \E k \in 1..Len(Letters) : c = Letters[k] \/ c = Capitals[k]

Upper(c) ==
  IF \E k \in 1..Len(Letters) : c = Letters[k]
  THEN Capitals[CHOOSE k \in 1..Len(Letters) : c = Letters[k]] ELSE c

Lower(c) ==
  IF \E k \in 1..Len(Capitals) : c = Capitals[k]
  THEN Letters[CHOOSE k \in 1..Len(Capitals) : c = Capitals[k]] ELSE c

\* Python's  s.replace('_', ' ')
Spaced(cs) == [i \in 1..Len(cs) |-> IF cs[i] = "_" THEN " " ELSE cs[i]]

\* Python's  s.title(): a letter after a non-letter is made upper case, a
\* letter after a letter lower case
Title(cs) ==
  [i \in 1..Len(cs) |->
     IF i = 1 \/ ~IsLetter(cs[i - 1]) THEN Upper(cs[i]) ELSE Lower(cs[i])]

\* position of a type in an ordered dict of [type, ...] entries, 0 if absent
RECURSIVE IndexFrom(_, _, _)
IndexFrom(tab, t, i) ==
  IF i > Len(tab) THEN 0
  ELSE IF tab[i].type = t THEN i ELSE IndexFrom(tab, t, i + 1)

IndexOf(tab, t) == IndexFrom(tab, t, 1)

\* ------------------------------------------------------------------ input
Res(t, n) == [kw |-> "resource", type |-> t, name |-> n, ctx |-> "code", src |-> << >>]

Commented(item, c) == [item EXCEPT !.ctx = c]

Block(k, n) == [kw |-> k, type |-> n, name |-> n, ctx |-> "code", src |-> << >>]

Module(n, s) == [kw |-> "module", type |-> n, name |-> n, ctx |-> "code", src |-> s]

Data(t, n) == [kw |-> "data", type |-> t, name |-> n, ctx |-> "code", src |-> << >>]

\* headers combined freely into texts of up to MaxItems headers
CoreItems ==
  { Res("aws_instance", "web"), Res("aws_lambda_function", "fn"),
    Res("aws_lb", "front"), Res("aws_db_instance", "main"),
    Res("aws_waf_web_acl", "acl"),
    Res("null_resource", "a"), Res("null_resource", "b") }

\* headers that occur in one-header texts only
ExtraItems ==
  { Res("aws_security_group", "sg"), Res("aws_s3_bucket", "logs"),
    Res("aws_sqs_queue", "jobs"), Res("aws_cloudwatch_log_group", "lg"),
    Res("aws_route53_record", "www"), Res("aws_rds_cluster_instance", "r1"),
    Res("aws_redshift_cluster_iam_roles", "rs"), Res("aws_lb_listener", "http"),
    Res("aws_db_subnet_group", "dbs"), Res("aws_security_group_rule", "in"),
    Commented(Res("aws_instance", "old"), "hash"),
    Commented(Res("aws_instance", "old"), "slash"),
    Commented(Res("aws_instance", "old"), "block"),
    Module("consul", << "hashicorp", "consul", "aws" >>),
    Module("web_app", << "..", "web-app" >>),
    Module("main", << ".", "modules", "vpc" >>),
    Module("net", << "vpc" >>),
    Module("bare", << >>),
    Data("aws_ami", "ubuntu"),
    Block("variable", "region"), Block("output", "ip"), Block("provider", "aws") }

\* longer texts: the three-tier example, one type declared on both sides of
\* another, two components of several nodes in a row, a text with a queue,
\* a bucket and a log group beside the load balancer and the instance, and
\* more unrecognised declarations (and types) than the fallback branches of
\* 00 and 01 show
Scenarios ==
  { << Res("aws_instance", "web"), Res("aws_instance", "api"),
       Res("aws_lambda_function", "fn"), Res("aws_lambda_function", "job") >>,
    << Res("aws_lb", "front"), Res("aws_instance", "web"), Res("aws_db_instance", "main") >>,
    << Res("aws_lb", "front"), Res("aws_instance", "web"), Res("aws_instance", "api"),
       Res("aws_db_instance", "main") >>,
    << Res("aws_instance", "a"), Res("aws_instance", "b"), Res("aws_instance", "c"),
       Res("aws_instance", "d") >>,
    << Res("aws_instance", "web"), Res("aws_lambda_function", "fn"), Res("aws_instance", "api") >>,
    << Res("aws_lb", "front"), Res("aws_sqs_queue", "jobs"), Res("aws_instance", "web"),
       Res("aws_s3_bucket", "data"), Res("aws_cloudwatch_log_group", "logs") >>,
    << Res("null_resource", "a"), Res("null_resource", "b"), Res("null_resource", "c"),
       Res("null_resource", "d"), Res("null_resource", "e"), Res("null_resource", "f") >>,
    << Res("null_resource", "a"), Res("random_id", "b"), Res("local_file", "c"),
       Res("tls_private_key", "d"), Res("time_sleep", "e"), Res("random_pet", "f") >> }

Texts ==
  BoundedSeq(CoreItems, MaxItems) \cup { << i >> : i \in ExtraItems } \cup Scenarios

\* ------------------------------------------------- structured extraction
\* The resource blocks hcl2 sees: those outside comments, in text order.
HclBlocks(content) ==
  SelectSeq(content, LAMBDA it : it.kw = "resource" /\ it.ctx = "code")

\* What the structured pass can do on a text: finish ("ok"), raise in
\* hcl2.load/loads before anything is collected ("loads"), or raise at
\* instances.items() of block number `at` ("items").  "io": the file
\* cannot be read.  "unavailable": the hcl2 import failed (00, 01, 04).
HclOutcomes(content) ==
  { [kind |-> "ok", at |-> 0], [kind |-> "loads", at |-> 0],
    [kind |-> "io", at |-> 0] }
  \cup { [kind |-> "items", at |-> j] : j \in 1..Len(HclBlocks(content)) }

HclRaised(h) == h.kind \in {"loads", "items"}

\* resources[resource_type] = []  when the type is new
EnsureType(res, t) ==
  IF IndexOf(res, t) = 0 THEN Append(res, [type |-> t, instances |-> << >>])
  ELSE res

\* resources[resource_type].append(inst)
AddInstance(res, t, inst) ==
  LET r == EnsureType(res, t)
      i == IndexOf(r, t)
  IN [r EXCEPT ![i].instances = Append(@, inst)]

RECURSIVE HclCollect(_, _, _)
HclCollect(res, blocks, n) ==
  IF n = 0 THEN res
  ELSE LET b == blocks[n]
       IN AddInstance(HclCollect(res, blocks, n - 1), b.type,
                      [name |-> b.name, config |-> "parsed"])

\* the inventory at the moment the structured pass raises
HclPartial(content, h) ==
  LET blocks == HclBlocks(content)
  IN IF h.kind = "items"
     THEN EnsureType(HclCollect(<< >>, blocks, h.at - 1), blocks[h.at].type)
     ELSE << >>

\* ----------------------------------------------------- lexical extraction
RECURSIVE RegexCollect(_, _, _)
RegexCollect(res, matches, n) ==
  IF n = 0 THEN res
  ELSE LET m == matches[n]
       IN AddInstance(RegexCollect(res, matches, n - 1), m.type, m.inst)

\* a scan that leaves out the headers inside comments
Matches03_code(content) ==
  LET hits == SelectSeq(content, LAMBDA it : it.kw = "resource" /\ it.ctx = "code")
  IN [i \in 1..Len(hits) |->
        [type |-> hits[i].type,
         inst |-> [name |-> hits[i].name, config |-> "empty"]]]

\* 03: every  resource "type" "name" {  of the text, commented or not
Matches03(content) ==
  LET hits == SelectSeq(content, LAMBDA it : it.kw = "resource")
  IN [i \in 1..Len(hits) |->
        [type |-> hits[i].type,
         inst |-> [name |-> hits[i].name, config |-> "empty"]]]

parse_with_regex_03(content) ==
  RegexCollect(<< >>, Matches03(content), Len(Matches03(content)))

\* 04: the matches of one pattern, in text order
PatternHits(content, kw) ==
  SelectSeq(content,
            LAMBDA it : it.kw = kw /\ (kw = "module" => it.src # << >>))

\* a module always typed by its own name
MatchType04_name(it) ==
  CASE it.kw = "module" -> "module_" \o it.name
    [] it.kw \in {"variable", "output", "provider"} -> it.kw
    [] it.kw = "data" -> "data_" \o it.type
    [] OTHER -> it.type

MatchType04(it) ==
  CASE it.kw = "module" ->
         IF Len(it.src) > 1 THEN "module_" \o it.src[Len(it.src)]
         ELSE "module_" \o it.name
    [] it.kw \in {"variable", "output", "provider"} -> it.kw
    [] it.kw = "data" -> "data_" \o it.type
    [] OTHER -> it.type

Matches04(content) ==
  LET order == << "resource", "module", "data", "variable", "output", "provider" >>
      hits == Flatten([k \in 1..Len(order) |-> PatternHits(content, order[k])])
  IN [i \in 1..Len(hits) |->
        [type |-> MatchType04(hits[i]),
         inst |-> [name |-> hits[i].name, config |-> "empty",
                   type |-> hits[i].kw]]]

parse_with_regex_04(content) ==
  RegexCollect(<< >>, Matches04(content), Len(Matches04(content)))

RegexFlat(content, stripped) ==
  LET hits == SelectSeq(content,
                        LAMBDA it : it.kw = "resource" /\ it.ctx \notin stripped)
  IN [i \in 1..Len(hits) |->
        [type |-> hits[i].type, name |-> hits[i].name, config |-> "empty"]]

\* 00 strips  # ...  and  /* ... */
parse_terraform_file_regex_00(content, h) ==
  IF h.kind = "io" THEN << >> ELSE RegexFlat(content, {"hash", "block"})

\* 01 strips  // ...  as well
parse_terraform_with_regex_01(content, h) ==
  IF h.kind = "io" THEN << >> ELSE RegexFlat(content, {"hash", "block", "slash"})

\* ----------------------------------------------------- parse orchestration
\* 03, lines 82-85: the except branch; `partial` is what the aborted
\* structured pass had put into resources.
\* an except branch that adds the lexical matches to what the structured
\* pass had collected
hcl_except_03_keeps(partial, content) ==
  RegexCollect(partial, Matches03(content), Len(Matches03(content)))

hcl_except_03(partial, content) == parse_with_regex_03(content)

parse_terraform_file_03(content, h) ==
  LET blocks == HclBlocks(content)
  IN CASE h.kind = "io" -> << >>
       [] h.kind = "ok" -> HclCollect(<< >>, blocks, Len(blocks))
       [] OTHER -> hcl_except_03(HclPartial(content, h), content)

hcl_except_04(partial, content) == parse_with_regex_04(content)

parse_terraform_file_04(content, h) ==
  LET blocks == HclBlocks(content)
  IN CASE h.kind = "io" -> << >>
       [] h.kind = "unavailable" -> parse_with_regex_04(content)
       [] h.kind = "ok" -> HclCollect(<< >>, blocks, Len(blocks))
       [] OTHER -> hcl_except_04(HclPartial(content, h), content)

\* --------------------------------------------------------- classification
EmptyCategories(order) == [i \in 1..Len(order) |-> [category |-> order[i], items |-> << >>]]

RECURSIVE CatIndexFrom(_, _, _)
CatIndexFrom(comps, c, i) ==
  IF i > Len(comps) THEN 0
  ELSE IF comps[i].category = c THEN i ELSE CatIndexFrom(comps, c, i + 1)

CatIndex(comps, c) == CatIndexFrom(comps, c, 1)

HasCat(comps, c) == CatIndex(comps, c) # 0

CatItems(comps, c) == comps[CatIndex(comps, c)].items

\* what is left of a mapping when a subscript with a missing key has raised
KeyError == << [category |-> "KeyError", items |-> << >>] >>

Raised(comps) == Len(comps) = 1 /\ comps[1].category = "KeyError"

\* components[category].append(item): a category that is no key of the
\* mapping raises KeyError, and nothing is appended after that
AddItem(comps, c, item) ==
  IF Raised(comps) \/ ~HasCat(comps, c) THEN KeyError
  ELSE [comps EXCEPT ![CatIndex(comps, c)].items = Append(@, item)]

RECURSIVE AddItems(_, _, _, _)
AddItems(comps, c, items, n) ==
  IF n = 0 THEN comps
  ELSE AddItem(AddItems(comps, c, items, n - 1), c, items[n])

NonEmpty(comps) == SelectSeq(comps, LAMBDA e : e.items # << >>)

Categories03 == << "compute", "database", "network", "storage", "security", "other" >>

\* 03, lines 174-183: what one inventory entry adds to its category
Entries03(entry) ==
  LET k == IndexOf(resource_mappings_03, entry.type)
  IN IF k # 0
     THEN [category |-> resource_mappings_03[k].category,
           items |-> [i \in 1..Len(entry.instances) |->
                        [class |-> resource_mappings_03[k].class,
                         label |-> << entry.type, entry.instances[i].name >>]]]
     ELSE [category |-> "other",
           items |-> << [class |-> "General",
                         label |-> << entry.type,
                                      IF entry.instances # << >>
                                      THEN entry.instances[1].name
                                      ELSE "unknown" >>] >>]

RECURSIVE Components03(_, _)
Components03(res, n) ==
  IF n = 0 THEN EmptyCategories(Categories03)
  ELSE LET e == Entries03(res[n])
       IN AddItems(Components03(res, n - 1), e.category, e.items, Len(e.items))

get_diagram_components(res) == Components03(res, Len(res))

\* a mapping initialised without the key `application`
Categories04_short ==
  << "compute", "database", "network", "storage", "security", "integration",
     "monitoring", "config" >>

Categories04 ==
  << "compute", "database", "network", "storage", "security", "integration",
     "monitoring", "application", "config" >>

Contains(t, word) == IsSubstr(Chars[word], Chars[t])

\* 04, lines 266-269: the first table entry, in table order, that holds the
\* type as a substring or is a substring of it (0: none)
RECURSIVE PartialFrom(_, _)
PartialFrom(t, i) ==
  IF i > Len(get_resource_mapping) THEN 0
  ELSE IF \/ Contains(t, get_resource_mapping[i].type)
          \/ Contains(get_resource_mapping[i].type, t)
       THEN i
       ELSE PartialFrom(t, i + 1)

\* 04, lines 272-281: the keyword patterns, applied after the partial match
Keyword04(t, category) ==
  CASE Contains(t, "database") \/ Contains(t, "db_") -> "database"
    [] Contains(t, "network") \/ Contains(t, "vpc") \/ Contains(t, "subnet") -> "network"
    [] Contains(t, "compute") \/ Contains(t, "instance") -> "compute"
    [] Contains(t, "storage") \/ Contains(t, "s3") -> "storage"
    [] Contains(t, "security") \/ Contains(t, "iam") -> "security"
    [] OTHER -> category

\* a classifier that lets the keyword `instance` override an exact entry
Classify04_keywords(t) ==
  LET k == IndexOf(get_resource_mapping, t)
      p == PartialFrom(t, 1)
  IN IF k # 0
     THEN [class |-> get_resource_mapping[k].class,
           category |-> IF Contains(t, "instance") THEN "compute"
                        ELSE get_resource_mapping[k].category]
     ELSE IF p # 0
          THEN [class |-> get_resource_mapping[p].class,
                category |-> Keyword04(t, get_resource_mapping[p].category)]
          ELSE [class |-> "General", category |-> Keyword04(t, "application")]

\* 04, lines 261-281: component class and category of a resource type
Classify04(t) ==
  LET k == IndexOf(get_resource_mapping, t)
      p == PartialFrom(t, 1)
  IN IF k # 0
     THEN [class |-> get_resource_mapping[k].class,
           category |-> get_resource_mapping[k].category]
     ELSE IF p # 0
          THEN [class |-> get_resource_mapping[p].class,
                category |-> Keyword04(t, get_resource_mapping[p].category)]
          ELSE [class |-> "General", category |-> Keyword04(t, "application")]

\* 04, line 258: the label of a node
Label04(t, name) ==
  << Join(Title(Spaced(Remove(Chars[t], Chars["aws_"])))), name >>

Entries04(entry) ==
  LET c == Classify04(entry.type)
  IN [category |-> c.category,
      items |-> [i \in 1..Len(entry.instances) |->
                   [class |-> c.class,
                    label |-> Label04(entry.type, entry.instances[i].name),
                    resource_type |-> entry.type,
                    name |-> entry.instances[i].name]]]

RECURSIVE DiagramData04(_, _)
DiagramData04(res, n) ==
  IF n = 0 THEN EmptyCategories(Categories04)
  ELSE LET e == Entries04(res[n])
       IN AddItems(DiagramData04(res, n - 1), e.category, e.items, Len(e.items))

create_diagram_data(res) == DiagramData04(res, Len(res))

\* -------------------------------------------------------------- synthesis
NodeId(c, i) == [category |-> c, idx |-> i]

Placeholder(text) ==
  << [id |-> NodeId("placeholder", 1), class |-> "General", label |-> << text >>,
      cluster |-> FALSE] >>

\* 03 lines 211-223, 04 lines 309-326: the nodes of one non-empty category,
\* inside a cluster when there are several
CategoryNodes(e) ==
  [i \in 1..Len(e.items) |->
     [id |-> NodeId(e.category, i), class |-> e.items[i].class,
      label |-> e.items[i].label, cluster |-> Len(e.items) > 1]]

\* created_components: category -> the nodes made for it
Created(nonEmpty) ==
  [k \in 1..Len(nonEmpty) |->
     [category |-> nonEmpty[k].category, items |-> CategoryNodes(nonEmpty[k])]]

AllNodes(created) == Flatten([k \in 1..Len(created) |-> created[k].items])

\* a rule list with a rule back from the database tier to the network tier
connection_patterns_03_back ==
  << << "network", "security" >>, << "security", "compute" >>,
     << "network", "compute" >>, << "compute", "database" >>,
     << "compute", "storage" >>, << "other", "compute" >>,
     << "database", "network" >> >>

connection_patterns_03 ==
  << << "network", "security" >>, << "security", "compute" >>,
     << "network", "compute" >>, << "compute", "database" >>,
     << "compute", "storage" >>, << "other", "compute" >> >>

\* the list without the rules network -> integration and application -> compute
connection_patterns_04_short ==
  << << "network", "security" >>, << "security", "compute" >>,
     << "network", "compute" >>, << "compute", "database" >>,
     << "compute", "storage" >>, << "integration", "compute" >>,
     << "monitoring", "compute" >> >>

connection_patterns_04 ==
  << << "network", "security" >>, << "security", "compute" >>,
     << "network", "compute" >>, << "compute", "database" >>,
     << "compute", "storage" >>, << "integration", "compute" >>,
     << "network", "integration" >>, << "monitoring", "compute" >>,
     << "application", "compute" >> >>

\* a guard that looks at the source category only
Connects_source(created, p) ==
  HasCat(created, p[1]) /\ CatItems(created, p[1]) # << >>

\* 03 lines 242/247, 04 lines 348/353: the guard of one pattern
Connects(created, p) ==
  /\ HasCat(created, p[1]) /\ HasCat(created, p[2])
  /\ CatItems(created, p[1]) # << >> /\ CatItems(created, p[2]) # << >>

\* an arrow drawn from the target back to the source
FirstToFirst_reversed(p) == [from |-> NodeId(p[2], 1), to |-> NodeId(p[1], 1)]

\* source_components[0] >> target_components[0]
FirstToFirst(p) == [from |-> NodeId(p[1], 1), to |-> NodeId(p[2], 1)]

Connections(created, patterns) ==
  LET hit == SelectSeq(patterns, LAMBDA p : Connects(created, p))
  IN [i \in 1..Len(hit) |-> FirstToFirst(hit[i])]

create_logical_connections(created) == Connections(created, connection_patterns_03)

create_connections(created) == Connections(created, connection_patterns_04)

Graph(d, n, e, c) ==
  [drawn |-> d, nodes |-> n, edges |-> e, components |-> c, raised |-> FALSE]

\* the classification has raised: the exception leaves the synthesizer
\* before a diagram is opened
Failure(comps) == [Graph(FALSE, << >>, << >>, comps) EXCEPT !.raised = TRUE]

\* 03, lines 187-226
create_architecture_diagram(res) ==
  LET comps == get_diagram_components(res)
      created == Created(NonEmpty(comps))
  IN IF res = << >>
     THEN Graph(TRUE, Placeholder("No Resources Found"), << >>, << >>)
     ELSE IF Raised(comps) THEN Failure(comps)
     ELSE IF NonEmpty(comps) = << >>
          THEN Graph(TRUE, Placeholder("Generic Resources"), << >>, comps)
          ELSE Graph(TRUE, AllNodes(created), create_logical_connections(created), comps)

\* a synthesizer without the placeholder branch
create_diagram_empty(data) ==
  LET created == Created(NonEmpty(data))
  IN Graph(TRUE, AllNodes(created), create_connections(created), data)

\* 04, lines 292-329
create_diagram(data) ==
  LET created == Created(NonEmpty(data))
  IN IF NonEmpty(data) = << >>
     THEN Graph(TRUE, Placeholder("No Resources Found"), << >>, data)
     ELSE Graph(TRUE, AllNodes(created), create_connections(created), data)

\* 04, lines 441-455: main builds the diagram data, then draws it
Diagram04(res) ==
  LET data == create_diagram_data(res)
  IN IF Raised(data) THEN Failure(data) ELSE create_diagram(data)

\* ------------------------------------------------------ variants 00 and 01
\* parsed['resource'] read as one mapping type -> name -> config: types in
\* order of first appearance, one entry per (type, name)
RECURSIVE DedupNames(_, _)
DedupNames(insts, n) ==
  IF n = 0 THEN << >>
  ELSE LET before == DedupNames(insts, n - 1)
       IN IF \E i \in 1..Len(before) : before[i].name = insts[n].name
          THEN before ELSE Append(before, insts[n])

HclFlat(content) ==
  LET blocks == HclBlocks(content)
      inv == HclCollect(<< >>, blocks, Len(blocks))
  IN Flatten([k \in 1..Len(inv) |->
       LET names == DedupNames(inv[k].instances, Len(inv[k].instances))
       IN [i \in 1..Len(names) |->
             [type |-> inv[k].type, name |-> names[i].name, config |-> "parsed"]]])

\* 00 lines 77-95, 01 lines 88-106: any exception ends in  return []
parse_terraform_file_hcl2(content, h) ==
  IF h.kind = "ok" THEN HclFlat(content) ELSE << >>

\* how a call of the structured extractor ends for its caller: the whole body
\* is inside  try ... except Exception: ... return []  and nothing is re-raised
hcl2_call(content, h) ==
  [raised |-> FALSE, value |-> parse_terraform_file_hcl2(content, h)]

\* 00, lines 125-133
parse_terraform_file_00(content, h) ==
  LET structured == hcl2_call(content, h).value
  IN IF h.kind # "unavailable" /\ structured # << >>
     THEN structured
     ELSE parse_terraform_file_regex_00(content, h)

\* 01, lines 137-147
parse_terraform_file_01(content, h) ==
  LET structured == IF h.kind # "unavailable"
                    THEN hcl2_call(content, h).value ELSE << >>
  IN IF structured = << >>
     THEN parse_terraform_with_regex_01(content, h)
     ELSE structured

Categories00 ==
  << "networking", "compute", "database", "security", "storage", "monitoring",
     "integration", "other" >>

Categories01 ==
  << "dns", "security", "load_balancer", "compute", "database", "storage",
     "networking", "monitoring", "integration", "other" >>

\* category_map.get(resource['type'], 'other')
MapGet(map, t) == IF IndexOf(map, t) # 0 THEN map[IndexOf(map, t)].category ELSE "other"

RECURSIVE Categorize(_, _, _, _)
Categorize(order, map, res, n) ==
  IF n = 0 THEN EmptyCategories(order)
  ELSE AddItem(Categorize(order, map, res, n - 1), MapGet(map, res[n].type), res[n])

categorize_resources_00(res) == Categorize(Categories00, category_map_00, res, Len(res))

categorize_resources_01(res) == Categorize(Categories01, category_map_01, res, Len(res))

\* the resources of a category whose type passes a test
OfTypes(cats, c, types) == SelectSeq(CatItems(cats, c), LAMBDA r : r.type \in types)

Having(cats, c, word) == SelectSeq(CatItems(cats, c), LAMBDA r : Contains(r.type, word))

Min(a, b) == IF a < b THEN a ELSE b

Node(key, i, class, label) ==
  [id |-> NodeId(key, i), class |-> class, label |-> label, cluster |-> FALSE]

\* one entry of the components dict: a single node, or a list of nodes
Single(key, class, label) ==
  << [category |-> key, list |-> FALSE, items |-> << Node(key, 1, class, label) >>] >>

Listed(key, class, prefix, n) ==
  << [category |-> key, list |-> TRUE,
      items |-> [i \in 1..n |-> Node(key, i, class, << prefix \o ToString(i) >>)]] >>

When(cond, entry) == IF cond THEN entry ELSE << >>

\* 00, lines 192-264
create_diagram_components_00(cats) ==
  LET lbs == OfTypes(cats, "networking", {"aws_lb", "aws_alb", "aws_elb"})
      r53 == OfTypes(cats, "networking", {"aws_route53_record", "aws_route53_zone"})
      ec2 == OfTypes(cats, "compute", {"aws_instance", "aws_launch_template"})
      lam == OfTypes(cats, "compute", {"aws_lambda_function"})
      ecs == OfTypes(cats, "compute", {"aws_ecs_service", "aws_ecs_cluster"})
      asg == OfTypes(cats, "compute", {"aws_autoscaling_group"})
      rds == OfTypes(cats, "database", {"aws_db_instance", "aws_rds_cluster"})
      ddb == OfTypes(cats, "database", {"aws_dynamodb_table"})
      waf == OfTypes(cats, "security", {"aws_wafv2_web_acl", "aws_waf_web_acl"})
      s3 == OfTypes(cats, "storage", {"aws_s3_bucket"})
  IN When(lbs # << >>,
          IF Len(lbs) = 1
          THEN Single("load_balancer",
                      IF lbs[1].type \in {"aws_lb", "aws_alb"} THEN "ALB" ELSE "ELB",
                      << "Load Balancer", lbs[1].name >>)
          ELSE Listed("load_balancer", "ALB", "LB-", Len(lbs)))
     \o When(r53 # << >>, Single("dns", "Route53", << "DNS" >>))
     \o When(ec2 # << >>,
             IF Len(ec2) = 1 THEN Single("compute", "EC2", << "EC2", ec2[1].name >>)
             ELSE Listed("compute", "EC2", "EC2-", Min(Len(ec2), 3)))
     \o When(lam # << >>,
             IF Len(lam) = 1 THEN Single("lambda", "Lambda", << "Lambda", lam[1].name >>)
             ELSE Listed("lambda", "Lambda", "Lambda-", Min(Len(lam), 3)))
     \o When(ecs # << >>, Single("ecs", "ECS", << "ECS Service" >>))
     \o When(asg # << >>, Single("asg", "AutoScaling", << "Auto Scaling Group" >>))
     \o When(rds # << >>, Single("rds", "RDS", << "RDS", rds[1].name >>))
     \o When(ddb # << >>, Single("dynamodb", "Dynamodb", << "DynamoDB", ddb[1].name >>))
     \o When(waf # << >>, Single("waf", "WAF", << "WAF" >>))
     \o When(s3 # << >>,
             IF Len(s3) = 1 THEN Single("s3", "S3", << "S3", s3[1].name >>)
             ELSE Single("s3", "S3", << "S3 Buckets", ToString(Len(s3)) >>))

\* 01, lines 234-318
create_diagram_components_01(cats) ==
  LET waf == Having(cats, "security", "waf")
      lbs == OfTypes(cats, "load_balancer", {"aws_lb", "aws_alb", "aws_elb"})
      ec2 == OfTypes(cats, "compute", {"aws_instance"})
      lam == OfTypes(cats, "compute", {"aws_lambda_function"})
      ecs == Having(cats, "compute", "ecs")
      asg == OfTypes(cats, "compute", {"aws_autoscaling_group"})
      rds == SelectSeq(CatItems(cats, "database"),
                       LAMBDA r : Contains(r.type, "rds") \/ Contains(r.type, "db_instance"))
      ddb == Having(cats, "database", "dynamodb")
      cache == Having(cats, "database", "elasticache")
      s3 == OfTypes(cats, "storage", {"aws_s3_bucket"})
      sqs == OfTypes(cats, "integration", {"aws_sqs_queue"})
      sns == Having(cats, "integration", "sns")
  IN When(CatItems(cats, "dns") # << >>, Single("dns", "Route53", << "DNS" >>))
     \o When(waf # << >>, Single("waf", "WAF", << "WAF" >>))
     \o When(lbs # << >>,
             Single("load_balancer", IF lbs[1].type = "aws_elb" THEN "ELB" ELSE "ALB",
                    << IF lbs[1].type = "aws_elb" THEN "ELB" ELSE "ALB", lbs[1].name >>))
     \o When(ec2 # << >>,
             IF Len(ec2) = 1 THEN Single("ec2", "EC2", << "EC2", ec2[1].name >>)
             ELSE Listed("ec2", "EC2", "EC2-", Min(Len(ec2), 4)))
     \o When(lam # << >>,
             IF Len(lam) = 1 THEN Single("lambda", "Lambda", << "Lambda", lam[1].name >>)
             ELSE Listed("lambda", "Lambda", "λ-", Min(Len(lam), 3)))
     \o When(ecs # << >>, Single("ecs", "ECS", << "ECS" >>))
     \o When(asg # << >>, Single("asg", "AutoScaling", << "Auto Scaling" >>))
     \o When(rds # << >>, Single("rds", "RDS", << "RDS", rds[1].name >>))
     \o When(ddb # << >>, Single("dynamodb", "Dynamodb", << "DynamoDB", ddb[1].name >>))
     \o When(cache # << >>, Single("cache", "ElastiCache", << "Cache", cache[1].name >>))
     \o When(s3 # << >>,
             IF Len(s3) = 1 THEN Single("s3", "S3", << "S3", s3[1].name >>)
             ELSE Single("s3", "S3", << "S3 Buckets", ToString(Len(s3)) >>))
     \o When(sqs # << >>, Single("sqs", "SQS", << "SQS", sqs[1].name >>))
     \o When(sns # << >>, Single("sns", "SNS", << "SNS", sns[1].name >>))

\* a >> b  of the diagrams library: an edge from every node of a to every
\* node of b (a or b a single node or a list of nodes)
Arrows(a, b) ==
  Flatten([i \in 1..Len(a) |-> [j \in 1..Len(b) |-> [from |-> a[i].id, to |-> b[j].id]]])

FirstOf(entry) == << entry.items[1] >>

\* 00, lines 301-316: prev is the entry of the last component met (<< >>: None)
RECURSIVE Flow00(_, _, _)
Flow00(comps, order, k) ==
  IF k = 0 THEN [prev |-> << >>, edges |-> << >>]
  ELSE LET st == Flow00(comps, order, k - 1)
       IN IF ~HasCat(comps, order[k]) THEN st
          ELSE LET cur == comps[CatIndex(comps, order[k])]
               IN [prev |-> << cur >>,
                   edges |-> st.edges \o
                             IF st.prev = << >> THEN << >>
                             ELSE Arrows(FirstOf(st.prev[1]), cur.items)]

flow_order_00 == << "dns", "waf", "load_balancer", "compute", "lambda", "ecs", "asg" >>

\* 00, lines 300-338
Connections00(comps) ==
  LET st == Flow00(comps, flow_order_00, Len(flow_order_00))
      prev == IF st.prev = << >> THEN << >> ELSE st.prev[1].items
  IN st.edges
     \o (IF prev # << >> /\ HasCat(comps, "rds")
         THEN Arrows(prev, CatItems(comps, "rds")) ELSE << >>)
     \o (IF prev # << >> /\ HasCat(comps, "dynamodb")
         THEN Arrows(prev, CatItems(comps, "dynamodb")) ELSE << >>)
     \o (IF HasCat(comps, "s3") /\ prev # << >> /\ HasCat(comps, "compute")
         THEN Arrows(FirstOf(comps[CatIndex(comps, "compute")]), CatItems(comps, "s3"))
         ELSE << >>)

Take(s, n) == SubSeq(s, 1, Min(Len(s), n))

GenericLimit == 5

\* a fallback that shows every resource
Generic00_all(res) ==
  LET generic == [i \in 1..Len(res) |->
                    Node("generic", i, "General", << res[i].type, res[i].name >>)]
  IN [nodes |-> generic,
      edges |-> IF Len(generic) > 1
                THEN Arrows(<< generic[1] >>, Tail(generic)) ELSE << >>]

\* 00, lines 294-298: the fallback for unrecognised resources
Generic00(res) ==
  LET shown == Take(res, GenericLimit)
      generic == [i \in 1..Len(shown) |->
                    Node("generic", i, "General", << shown[i].type, shown[i].name >>)]
  IN [nodes |-> generic,
      edges |-> IF Len(generic) > 1
                THEN Arrows(<< generic[1] >>, Tail(generic)) ELSE << >>]

\* 00, lines 266-338
generate_architecture_diagram_00(res) ==
  LET cats == categorize_resources_00(res)
      comps == create_diagram_components_00(cats)
  IN IF res = << >> THEN Graph(FALSE, << >>, << >>, << >>)
     ELSE IF Raised(cats) THEN Failure(cats)
     ELSE IF comps = << >>
          THEN Graph(TRUE, Generic00(res).nodes, Generic00(res).edges, cats)
          ELSE Graph(TRUE, AllNodes(comps), Connections00(comps), cats)

\* 01, lines 328-344: a list >> list is a TypeError of the diagrams library
RECURSIVE Flow01(_, _, _)
Flow01(comps, order, k) ==
  IF k = 0 THEN [prev |-> << >>, edges |-> << >>, raised |-> FALSE]
  ELSE LET st == Flow01(comps, order, k - 1)
       IN IF st.raised \/ ~HasCat(comps, order[k]) THEN st
          ELSE LET cur == comps[CatIndex(comps, order[k])]
               IN IF st.prev = << >>
                  THEN [st EXCEPT !.prev = << cur >>]
                  ELSE IF st.prev[1].list /\ cur.list
                       THEN [st EXCEPT !.raised = TRUE]
                       ELSE [prev |-> << cur >>,
                             edges |-> st.edges \o Arrows(st.prev[1].items, cur.items),
                             raised |-> FALSE]

flow_sequence_01 == << "dns", "waf", "load_balancer", "ec2", "asg", "lambda", "ecs" >>

database_components_01 == << "rds", "dynamodb", "cache" >>

\* 01, lines 320-365
create_architecture_flow(comps) ==
  LET st == Flow01(comps, flow_sequence_01, Len(flow_sequence_01))
      compute == SelectSeq(comps, LAMBDA e : e.category \in {"ec2", "lambda", "ecs", "asg"})
      dbs == SelectSeq(database_components_01, LAMBDA k : HasCat(comps, k))
      toDb == Flatten([d \in 1..Len(dbs) |->
                Flatten([c \in 1..Len(compute) |->
                  Arrows(compute[c].items, CatItems(comps, dbs[d]))])])
      toS3 == IF HasCat(comps, "s3") /\ compute # << >>
              THEN Arrows(FirstOf(compute[1]), CatItems(comps, "s3")) ELSE << >>
  IN IF st.raised THEN [edges |-> st.edges, raised |-> TRUE]
     ELSE [edges |-> st.edges \o toDb \o toS3, raised |-> FALSE]

TypesOf(res) == { res[i].type : i \in DOMAIN res }

\* the orders in which  list(set(resource_types))  can list the types
Orders(S) == { o \in [1..Cardinality(S) -> S] : Range(o) = S }

\* 01, lines 413-419: at most 5 of the distinct types, chained
Generic01(order) ==
  LET shown == Take(order, GenericLimit)
      generic == [i \in 1..Len(shown) |->
                    Node("generic", i, "General",
                         << Join(Remove(Chars[shown[i]], Chars["aws_"])) >>)]
  IN [nodes |-> generic,
      edges |-> [i \in 1..(Len(generic) - 1) |->
                   [from |-> generic[i].id, to |-> generic[i + 1].id]]]

\* 01, lines 367-422, after the parse; `order` is the order in which the set
\* of resource types is listed
generate_architecture_diagram_01(res, order) ==
  LET cats == categorize_resources_01(res)
      comps == create_diagram_components_01(cats)
      flow == create_architecture_flow(comps)
  IN IF res = << >>
     THEN Graph(TRUE, Placeholder("No Resources Found"), << >>, << >>)
     ELSE IF Raised(cats) THEN Failure(cats)
     ELSE IF comps = << >>
          THEN Graph(TRUE, Generic01(order).nodes, Generic01(order).edges, cats)
          ELSE [Graph(TRUE, AllNodes(comps), flow.edges, cats)
                  EXCEPT !.raised = flow.raised]

\* 03, lines 279-282: all_resources[resource_type].extend(instances)
RECURSIVE Extend(_, _, _, _)
Extend(res, t, insts, n) ==
  IF n = 0 THEN EnsureType(res, t)
  ELSE AddInstance(Extend(res, t, insts, n - 1), t, insts[n])

RECURSIVE MergeInto(_, _, _)
MergeInto(all, res, n) ==
  IF n = 0 THEN all
  ELSE Extend(MergeInto(all, res, n - 1), res[n].type, res[n].instances,
              Len(res[n].instances))

\* all_resources.update(resources): the list of a later file replaces the
\* list the type had
Merge_update(all, res) ==
  [k \in 1..Len(all) |->
     IF IndexOf(res, all[k].type) # 0 THEN res[IndexOf(res, all[k].type)] ELSE all[k]]
  \o SelectSeq(res, LAMBDA e : IndexOf(all, e.type) = 0)

Merge(all, res) == MergeInto(all, res, Len(res))
\* ------------------------------------------------------ variant 02 (Checkly)
\* a resource block together with the config hcl2 makes of its body.  The
\* values whose shape the code tests with isinstance carry the shape as
\* `form`: the config ("dict" or "list"), the items of a config that is a
\* list, what the keys request, locations, slack, pagerduty, email, webhook
\* and sms hold, and the items of a list held there ("dict", "list" or
\* "str"; a list of locations holds plain strings).  A "dict" has a mapping
\* as value, << >> when it is empty.  A nested block (request { }, slack { })
\* is the list of one mapping that hcl2 makes of it; an attribute
\* (request = { }, locations = "eu-west-1") has the shape it is written in.
Checkly(t, n, form, body) ==
  [kw |-> "resource", type |-> t, name |-> n, ctx |-> "code", src |-> << >>,
   cfg |-> [form |-> form, value |-> body]]

\* blocks combined freely into texts of up to MaxItems blocks
ChecklyItems ==
  LET Nested(m) == [form |-> "list", value |-> << [form |-> "dict", value |-> m] >>]
      Locations(l) == [form |-> "list", value |-> l]
  IN
  { Checkly("checkly_check", "get-users", "dict",
            [type |-> "API", frequency |-> 1,
             locations |-> Locations(<< "eu-west-1", "us-east-1" >>),
             request |-> Nested([url |-> "https://api.example.com/users"])]),
    Checkly("checkly_check", "browser-check", "dict",
            [name |-> "Shop", type |-> "BROWSER", activated |-> FALSE,
             script |-> "await page.goto(danube)"]),
    Checkly("checkly_check_group", "users-api", "dict",
            [name |-> "Users API",
             locations |-> Locations(<< "eu-west-1", "ap-south-1" >>)]),
    Checkly("checkly_alert_channel", "slack_ac", "dict",
            [slack |-> Nested([channel |-> "#ops"])]),
    Checkly("checkly_dashboard", "main", "dict", [custom_domain |-> "status.example.com"]) }

\* blocks that occur in one-block texts only
ChecklyExtra ==
  LET Dict(m) == [form |-> "dict", value |-> m]
      List(l) == [form |-> "list", value |-> l]
      Str(x) == [form |-> "str", value |-> x]
      Nested(m) == List(<< Dict(m) >>)
  IN
  { Checkly("checkly_check", "plain", "dict", [tags |-> << "prod" >>]),
    Checkly("checkly_check", "tcp", "dict",
            [type |-> "TCP", request |-> Nested([url |-> "https://example.com"])]),
    Checkly("checkly_check", "shop", "dict",
            [request |-> Nested([url |-> "https://Danube-webshop.herokuapp.com"])]),
    Checkly("checkly_check", "mapped", "dict",
            [request |-> Dict([url |-> "https://api.example.com/users"])]),
    Checkly("checkly_check", "bodiless", "dict", [request |-> Dict([method |-> "GET"])]),
    Checkly("checkly_check", "worded", "dict",
            [request |-> List(<< Str("https://example.com") >>)]),
    Checkly("checkly_check", "unlisted", "dict", [request |-> List(<< >>)]),
    Checkly("checkly_check", "single", "dict", [locations |-> Str("eu-west-1")]),
    Checkly("checkly_check_group", "single", "dict", [locations |-> Str("eu-west-1")]),
    Checkly("checkly_check_group", "keyed", "dict",
            [locations |-> Dict([primary |-> "eu-west-1"])]),
    Checkly("checkly_alert_channel", "pd", "dict", [pagerduty |-> Nested([account |-> "checkly"])]),
    Checkly("checkly_alert_channel", "mail", "dict",
            [email |-> Nested([address |-> "ops@example.com"])]),
    Checkly("checkly_alert_channel", "hook", "dict",
            [webhook |-> Nested([url |-> "https://example.com"])]),
    Checkly("checkly_alert_channel", "text", "dict", [sms |-> Nested([number |-> "555"])]),
    Checkly("checkly_alert_channel", "og", "dict", [opsgenie |-> Nested([name |-> "og"])]),
    Checkly("checkly_alert_channel", "empty", "dict", [slack |-> List(<< >>)]),
    Checkly("checkly_alert_channel", "mapped", "dict", [slack |-> Dict([channel |-> "#ops"])]),
    Checkly("checkly_alert_channel", "named", "dict", [email |-> Str("ops@example.com")]),
    Checkly("checkly_alert_channel", "worded", "dict", [sms |-> List(<< Str("555") >>)]),
    Checkly("checkly_dashboard", "plain", "dict", [refresh_rate |-> 30]),
    Checkly("checkly_maintenance_window", "mw", "dict", [repeat_unit |-> "WEEK"]),
    Checkly("checkly_maintenance_windows", "maintenance-1", "dict", [repeat_unit |-> "DAY"]),
    Checkly("checkly_trigger", "t", "dict", [tags |-> << "prod" >>]),
    Checkly("checkly_snippet", "sn", "dict", [script |-> "await page.goto(danube)"]),
    Checkly("checkly_check", "listed", "list",
            << Dict([name |-> "Listed", type |-> "BROWSER"]), Dict([name |-> "Second"]) >>),
    Checkly("checkly_check", "nothing", "list", << >>),
    Checkly("checkly_check", "words", "list", << Str("name"), Dict([name |-> "Second"]) >>),
    Checkly("checkly_alert_channel", "listed", "list",
            << Dict([slack |-> Nested([channel |-> "#ops"])]) >>),
    Checkly("checkly_alert_channel", "words", "list", << Str("pager"), Str("slack") >>),
    Res("aws_instance", "web") }

\* longer texts: a check run from seven locations, six API checks in a
\* group, two channels of one type, and a maintenance window with a trigger
\* and a snippet
ChecklyScenarios ==
  LET ApiCheck(n) == Checkly("checkly_check", n, "dict", [type |-> "API"])
      Nested(m) == [form |-> "list", value |-> << [form |-> "dict", value |-> m] >>]
  IN
  { << Checkly("checkly_check", "all", "dict",
               [locations |->
                  [form |-> "list",
                   value |-> << "us-east-1", "us-west-1", "eu-west-1", "eu-central-1",
                                "ap-south-1", "ap-southeast-1", "sa-east-1" >>]]) >>,
    << ApiCheck("a"), ApiCheck("b"), ApiCheck("c"), ApiCheck("d"), ApiCheck("e"),
       ApiCheck("f"),
       Checkly("checkly_check_group", "orders-api", "dict", [concurrency |-> 3]) >>,
    << ApiCheck("a"),
       Checkly("checkly_alert_channel", "slack_1", "dict", [slack |-> Nested([channel |-> "#ops"])]),
       Checkly("checkly_alert_channel", "pd", "dict", [pagerduty |-> Nested([account |-> "checkly"])]),
       Checkly("checkly_alert_channel", "slack_2", "dict", [slack |-> Nested([channel |-> "#dev"])]) >>,
    << ApiCheck("a"), ApiCheck("b"), ApiCheck("c"),
       Checkly("checkly_maintenance_window", "mw", "dict", [repeat_unit |-> "WEEK"]),
       Checkly("checkly_maintenance_window", "once", "dict", [tags |-> << "prod" >>]),
       Checkly("checkly_trigger", "t", "dict", [tags |-> << "prod" >>]),
       Checkly("checkly_snippet", "sn", "dict", [script |-> "await page.goto(danube)"]) >> }

ChecklyTexts ==
  BoundedSeq(ChecklyItems, MaxItems) \cup { << i >> : i \in ChecklyExtra }
  \cup ChecklyScenarios

\* 02, lines 38-47: the key is read from a mapping, or from the first item
\* of a list that is not empty when that item is a mapping; anything else
\* gives the default
safe_get_config(config, key, default) ==
  CASE config.form = "dict" ->
         IF key \in DOMAIN config.value THEN config.value[key] ELSE default
    [] /\ config.form = "list"
       /\ config.value # << >>
       /\ config.value[1].form = "dict" ->
         IF key \in DOMAIN config.value[1].value THEN config.value[1].value[key]
         ELSE default
    [] OTHER -> default

channel_types_02 == << "slack", "pagerduty", "email", "webhook", "sms" >>

\* the details read from the block of each channel type, with their defaults
channel_details_02 ==
  << << [key |-> "webhook_url", default |-> ""], [key |-> "channel", default |-> ""] >>,
     << [key |-> "account", default |-> ""], [key |-> "service_key", default |-> ""] >>,
     << [key |-> "address", default |-> ""] >>,
     << [key |-> "url", default |-> ""], [key |-> "method", default |-> "POST"] >>,
     << [key |-> "number", default |-> ""] >> >>

\* 02, lines 49-82: the first channel type found  in config  names the
\* channel: a key of a mapping, or an item of a list, and then the subscript
\* config[channel_type] of line 58 raises TypeError.  A block that is a list
\* stands for its first item (lines 62-63), and the details are read when
\* that is a mapping (line 65).  A dict is the sequence of its (key, value)
\* pairs in insertion order.
parse_alert_channel_config(config) ==
  LET present ==
        SelectSeq([k \in 1..Len(channel_types_02) |-> k],
                  LAMBDA k :
                    IF config.form = "dict" THEN channel_types_02[k] \in DOMAIN config.value
                    ELSE \E i \in DOMAIN config.value :
                           /\ config.value[i].form = "str"
                           /\ config.value[i].value = channel_types_02[k])
  IN IF present = << >> THEN [type |-> "unknown", details |-> << >>]
     ELSE IF config.form # "dict" THEN [raised |-> "TypeError"]
     ELSE LET k == present[1]
              block == config.value[channel_types_02[k]]
              channel_config == IF block.form = "list" /\ block.value # << >>
                                THEN block.value[1] ELSE block
              want == channel_details_02[k]
          IN [type |-> channel_types_02[k],
              details |->
                IF channel_config.form # "dict" THEN << >>
                ELSE [i \in 1..Len(want) |->
                        [key |-> want[i].key,
                         value |-> IF want[i].key \in DOMAIN channel_config.value
                                   THEN channel_config.value[want[i].key]
                                   ELSE want[i].default]]]

Keys02 ==
  << "checks", "check_groups", "alert_channels", "dashboards",
     "maintenance_windows", "triggers", "snippets" >>

\* 02, lines 113-190: the list a block is appended to and the entry made of
\* it; a block of another type is passed over, and an exception of
\* parse_alert_channel_config goes on under the key "raised"
Info02(b) ==
  LET c == b.cfg
  IN CASE b.type = "checkly_check" ->
            << [key |-> "checks",
                info |-> [name |-> b.name,
                          display_name |-> safe_get_config(c, "name", b.name),
                          type |-> safe_get_config(c, "type", "API"),
                          group_id |-> safe_get_config(c, "group_id", "None"),
                          locations |-> safe_get_config(c, "locations",
                                                       [form |-> "list", value |-> << >>]),
                          frequency |-> safe_get_config(c, "frequency", 300),
                          activated |-> safe_get_config(c, "activated", TRUE),
                          should_fail |-> safe_get_config(c, "should_fail", FALSE),
                          runtime_id |-> safe_get_config(c, "runtime_id", "None"),
                          script |-> safe_get_config(c, "script", ""),
                          request |-> safe_get_config(c, "request",
                                                     [form |-> "dict", value |-> << >>]),
                          tags |-> safe_get_config(c, "tags", << >>)]] >>
       [] b.type = "checkly_check_group" ->
            << [key |-> "check_groups",
                info |-> [name |-> b.name,
                          display_name |-> safe_get_config(c, "name", b.name),
                          locations |-> safe_get_config(c, "locations",
                                                       [form |-> "list", value |-> << >>]),
                          activated |-> safe_get_config(c, "activated", TRUE),
                          tags |-> safe_get_config(c, "tags", << >>),
                          environment_variables |->
                            safe_get_config(c, "environment_variables", << >>),
                          concurrency |-> safe_get_config(c, "concurrency", 1)]] >>
       [] b.type = "checkly_alert_channel" ->
            LET channel_config == parse_alert_channel_config(c)
            IN IF "raised" \in DOMAIN channel_config
               THEN << [key |-> "raised", info |-> channel_config] >>
               ELSE << [key |-> "alert_channels",
                        info |-> [name |-> b.name,
                                  type |-> channel_config.type,
                                  details |-> channel_config.details,
                                  config |-> c]] >>
       [] b.type = "checkly_dashboard" ->
            << [key |-> "dashboards",
                info |-> [name |-> b.name,
                          custom_url |-> safe_get_config(c, "custom_url", ""),
                          custom_domain |-> safe_get_config(c, "custom_domain", ""),
                          logo |-> safe_get_config(c, "logo", ""),
                          header |-> safe_get_config(c, "header", ""),
                          refresh_rate |-> safe_get_config(c, "refresh_rate", 60),
                          paginate |-> safe_get_config(c, "paginate", TRUE),
                          pagination_rate |-> safe_get_config(c, "pagination_rate", 30),
                          hide_tags |-> safe_get_config(c, "hide_tags", FALSE)]] >>
       [] b.type = "checkly_maintenance_window" ->
            << [key |-> "maintenance_windows",
                info |-> [name |-> b.name,
                          display_name |-> safe_get_config(c, "name", b.name),
                          starts_at |-> safe_get_config(c, "starts_at", ""),
                          ends_at |-> safe_get_config(c, "ends_at", ""),
                          repeat_unit |-> safe_get_config(c, "repeat_unit", ""),
                          repeat_ends_at |-> safe_get_config(c, "repeat_ends_at", ""),
                          tags |-> safe_get_config(c, "tags", << >>)]] >>
       [] b.type = "checkly_trigger" ->
            << [key |-> "triggers",
                info |-> [name |-> b.name,
                          tags |-> safe_get_config(c, "tags", << >>)]] >>
       [] b.type = "checkly_snippet" ->
            << [key |-> "snippets",
                info |-> [name |-> b.name,
                          script |-> safe_get_config(c, "script", "")]] >>
       [] OTHER -> << >>

\* the loop of lines 109-190; after an exception nothing is appended, and
\* KeyError stands for the loop that was left by one
RECURSIVE Collect02(_, _)
Collect02(blocks, n) ==
  IF n = 0 THEN EmptyCategories(Keys02)
  ELSE LET before == Collect02(blocks, n - 1)
           e == Info02(blocks[n])
       IN IF e = << >> THEN before
          ELSE IF Raised(before) \/ e[1].key = "raised" THEN KeyError
          ELSE AddItem(before, e[1].key, e[1].info)

\* Python's None
None == << >>

\* 02, lines 84-198: the file is read and parsed inside one try; whatever
\* is raised there ends in  return None  and no lexical pass follows
parse_checkly_resources(content, h) ==
  LET collected == Collect02(HclBlocks(content), Len(HclBlocks(content)))
  IN IF h.kind = "ok" /\ ~Raised(collected) THEN collected ELSE None

\* 02, lines 211-228: the targets one check adds to unique_targets; a
\* request that is a list stands for its first item, and the url is read
\* from a request that is a mapping
TargetsOf(check) ==
  LET request == IF check.request.form = "list" /\ check.request.value # << >>
                 THEN check.request.value[1] ELSE check.request
      \* word in s.lower()
      ContainsLower(s, word) ==
        IsSubstr(Chars[word], [i \in 1..Len(Chars[s]) |-> Lower(Chars[s][i])])
  IN (IF request.form = "dict" /\ "url" \in DOMAIN request.value
      THEN IF ContainsLower(request.value.url, "danube") THEN {"Danube Webshop"}
           ELSE IF ContainsLower(request.value.url, "api") THEN {"API Service"}
           ELSE {"Web Service"}
      ELSE { })
     \cup (IF check.script # "" /\ ContainsLower(check.script, "danube")
           THEN {"Danube Webshop"} ELSE { })

\* 02, lines 208-231
unique_targets(res) ==
  LET found == UNION { TargetsOf(c) : c \in Range(CatItems(res, "checks")) }
  IN IF found = { } THEN {"Target Services"} ELSE found

\* 02, lines 238-254: the locations of the checks and of the groups that are
\* lists
all_locations(res) ==
  LET found == UNION { IF c.locations.form = "list" THEN Range(c.locations.value)
                       ELSE { } :
                       c \in Range(CatItems(res, "checks"))
                             \cup Range(CatItems(res, "check_groups")) }
  IN IF found = { } THEN {"us-east-1", "eu-west-1", "ap-southeast-1"} ELSE found

LocationCap == 6

CheckCap == 5

\* list(all_locations)[:6]: the first six of the set in the order the
\* runtime iterates it, which is any six of its members
KeptLocations(res) ==
  { K \in SUBSET all_locations(res) :
      Cardinality(K) = Min(Cardinality(all_locations(res)), LocationCap) }

\* the strings the model sorts, in Python's string order
SortOrder ==
  << "API Service", "Danube Webshop", "Target Services", "Web Service",
     "ap-south-1", "ap-southeast-1", "eu-central-1", "eu-west-1", "sa-east-1",
     "us-east-1", "us-west-1" >>

\* sorted(S)
Sorted(S) == SelectSeq(SortOrder, LAMBDA x : x \in S)

\* a node made inside a  with Cluster(...)
InCluster(key, i, class, label) == [Node(key, i, class, label) EXCEPT !.cluster = TRUE]

Count02(n, what) == "(" \o ToString(n) \o what \o ")"

\* 02, lines 279-295: the node made for check number i; the first part of
\* the label stands for the status sign (check mark or pause sign)
CheckNode(checks, i) ==
  LET c == checks[i]
      label == << IF c.activated THEN "activated" ELSE "paused", c.display_name,
                  Count02(c.frequency, "s interval") >>
  IN CASE c.type = "API" -> InCluster("api_check", i, "Prometheus", label)
       [] c.type = "BROWSER" -> InCluster("browser_check", i, "React", label)
       [] OTHER -> InCluster("api_check", i, "General", label)

alert_classes_02 ==
  << [type |-> "slack", class |-> "Slack", label |-> "Slack"],
     [type |-> "pagerduty", class |-> "Pagerduty", label |-> "PagerDuty"],
     [type |-> "email", class |-> "User", label |-> "Email"],
     [type |-> "webhook", class |-> "Router", label |-> "Webhook"],
     [type |-> "sms", class |-> "User", label |-> "SMS"] >>

\* 02, lines 304-331: one node per channel type, in the order in which the
\* types first occur
AlertNodes(channels) ==
  LET first == SelectSeq([i \in 1..Len(channels) |-> i],
                         LAMBDA i : \A j \in 1..(i - 1) : channels[j].type # channels[i].type)
      count(t) == Cardinality({ i \in 1..Len(channels) : channels[i].type = t })
  IN [k \in 1..Len(first) |->
        LET t == channels[first[k]].type
            a == IndexOf(alert_classes_02, t)
        IN IF a = 0
           THEN InCluster("alert_channel", k, "General",
                          << "Alert Channel", "(" \o t \o ")" >>)
           ELSE InCluster("alert_channel", k, alert_classes_02[a].class,
                          IF count(t) > 1
                          THEN << alert_classes_02[a].label, Count02(count(t), " channels") >>
                          ELSE << alert_classes_02[a].label >>)]

\* an edge drawn with  Edge(label=...)
Labelled(edges, text) ==
  [i \in 1..Len(edges) |-> [from |-> edges[i].from, to |-> edges[i].to, label |-> text]]

\* 02, lines 200-406; `kept` is what list(all_locations)[:6] holds.  A node
\* is part of the diagram from its construction on, so the nodes of the
\* single checks stay in it when a summary node takes their place in the
\* list.  On None the first subscript raises inside the  with Diagram.
create_detailed_checkly_diagram(res, kept) ==
  LET checks == CatItems(res, "checks")
      groups == CatItems(res, "check_groups")
      boards == CatItems(res, "dashboards")
      windows == CatItems(res, "maintenance_windows")
      triggers == CatItems(res, "triggers")
      snippets == CatItems(res, "snippets")
      targets == Sorted(unique_targets(res))
      target_services ==
        [i \in 1..Len(targets) |-> InCluster("target", i, "Internet", << targets[i] >>)]
      location_nodes ==
        [i \in 1..Len(Sorted(kept)) |->
           InCluster("location", i, "Subnet", << Sorted(kept)[i], "Monitoring" >>)]
      check_group_nodes ==
        [i \in 1..Len(groups) |->
           InCluster("check_group", i, "Rack",
                     << groups[i].display_name,
                        \* len() of a list, of a mapping, of a string
                        Count02(CASE groups[i].locations.form = "list" ->
                                       Len(groups[i].locations.value)
                                  [] groups[i].locations.form = "dict" ->
                                       Cardinality(DOMAIN groups[i].locations.value)
                                  [] OTHER -> Len(Chars[groups[i].locations.value]),
                                " locations") >>)]
      made == [i \in 1..Len(checks) |-> CheckNode(checks, i)]
      api_made == SelectSeq(made, LAMBDA nd : nd.id.category = "api_check")
      browser_made == SelectSeq(made, LAMBDA nd : nd.id.category = "browser_check")
      api_summary ==
        IF Len(api_made) > CheckCap
        THEN << InCluster("api_check", Len(checks) + 1, "Prometheus",
                          << "API Checks", Count02(Len(api_made), " total") >>) >>
        ELSE << >>
      browser_summary ==
        IF Len(browser_made) > CheckCap
        THEN << InCluster("browser_check", Len(checks) + 1, "React",
                          << "Browser Checks", Count02(Len(browser_made), " total") >>) >>
        ELSE << >>
      api_checks == IF api_summary # << >> THEN api_summary ELSE api_made
      browser_checks == IF browser_summary # << >> THEN browser_summary ELSE browser_made
      alert_channel_nodes == AlertNodes(CatItems(res, "alert_channels"))
      dashboard_nodes ==
        [i \in 1..Len(boards) |->
           InCluster("dashboard", i, "Grafana",
                     IF boards[i].custom_domain # ""
                     THEN << "Dashboard", boards[i].custom_domain,
                             Count02(boards[i].refresh_rate, "s refresh") >>
                     ELSE << "Public Dashboard",
                             Count02(boards[i].refresh_rate, "s refresh") >>)]
      maintenance_nodes ==
        [i \in 1..Len(windows) |->
           InCluster("maintenance", i, "General",
                     IF windows[i].repeat_unit # ""
                     THEN << "Maintenance Window", "(" \o windows[i].repeat_unit \o ")" >>
                     ELSE << "Maintenance Window" >>)]
        \o (IF windows # << >> /\ triggers # << >>
            THEN << InCluster("maintenance", Len(windows) + 1, "General",
                              << "Triggers", Count02(Len(triggers), "") >>) >>
            ELSE << >>)
      snippet_node ==
        IF snippets # << >>
        THEN << Node("snippet", 1, "General",
                     << "Reusable Snippets", Count02(Len(snippets), "") >>) >>
        ELSE << >>
      all_checks == api_checks \o browser_checks
  IN IF res = None THEN [Graph(TRUE, << >>, << >>, << >>) EXCEPT !.raised = TRUE]
     ELSE Graph(TRUE,
                target_services \o location_nodes \o check_group_nodes \o made
                  \o api_summary \o browser_summary \o alert_channel_nodes
                  \o dashboard_nodes \o maintenance_nodes \o snippet_node,
                Labelled(Arrows(location_nodes, target_services), "monitors")
                  \o Labelled(Arrows(check_group_nodes, Take(all_checks, 2)), "contains")
                  \o Labelled(Arrows(Take(location_nodes, 2), all_checks), "executes")
                  \o Labelled(Arrows(all_checks, alert_channel_nodes), "alerts on failure")
                  \o Labelled(Arrows(all_checks, dashboard_nodes), "displays results")
                  \o Labelled(Arrows(maintenance_nodes, Take(all_checks, 2)), "suspends")
                  \o Labelled(Arrows(snippet_node, all_checks), "provides code"),
                << >>)


\* ------------------------------------------------------------ the machine
\* All ways to cut a text into m consecutive files
RECURSIVE Splits(_, _)
Splits(t, m) ==
  IF m = 1 THEN { << t >> }
  ELSE UNION { { << SubSeq(t, 1, k) >> \o rest :
                   rest \in Splits(SubSeq(t, k + 1, Len(t)), m - 1) } :
               k \in 0..Len(t) }

\* 03 draws one diagram per directory; the others one per file
Units(v, texts) ==
  IF v = "v03" THEN UNION { Splits(t, m) : t \in texts, m \in 1..MaxFiles }
  ELSE { << t >> : t \in texts }

\* the texts of the units of a batch run
BatchItems ==
  { Res("aws_instance", "web"), Res("aws_db_instance", "main"), Res("null_resource", "a") }

BatchTexts == BoundedSeq(BatchItems, MaxBatchItems)

Outcomes(v, content) ==
  HclOutcomes(content)
  \cup (IF v \in {"v02", "v03"} THEN { } ELSE { [kind |-> "unavailable", at |-> 0] })

Parse(v, content, h) ==
  CASE v = "v00" -> parse_terraform_file_00(content, h)
    [] v = "v01" -> parse_terraform_file_01(content, h)
    [] v = "v02" -> parse_checkly_resources(content, h)
    [] v = "v03" -> parse_terraform_file_03(content, h)
    [] v = "v04" -> parse_terraform_file_04(content, h)

NoGraph == Graph(FALSE, << >>, << >>, << >>)

NoOutcome == [kind |-> "none", at |-> 0]

Fresh ==
  /\ fileIdx = 0
  /\ hcl = NoOutcome
  /\ downgraded = FALSE
  /\ resources = << >>
  /\ inventories = << >>
  /\ all_resources = << >>
  /\ graph = NoGraph
  /\ renderRaised = FALSE

\* the functions are called in turn on one configuration unit
InitCalls ==
  /\ variant \in Variants
  /\ files \in Units(variant, IF variant = "v02" THEN ChecklyTexts ELSE Texts)
  /\ pc = "parse"
  /\ total = 1
  /\ unitNo = 1
  /\ Fresh

\* the script runs its main loop over the units it found
InitBatch ==
  /\ variant \in Variants
  /\ files = << >>
  /\ pc = "next"
  /\ total \in (IF variant \in {"v02", "v04"} THEN {1} ELSE 0..MaxUnits)
  /\ unitNo = 0
  /\ Fresh

\* a loop whose all_resources is created once, before the first directory
NextUnit_carries ==
  /\ pc = "next" /\ unitNo < total
  /\ files' \in Units(variant, IF variant = "v02"
                                THEN BoundedSeq(ChecklyItems, MaxBatchItems)
                                ELSE BatchTexts)
  /\ unitNo' = unitNo + 1
  /\ fileIdx' = 0
  /\ hcl' = NoOutcome
  /\ downgraded' = FALSE
  /\ resources' = << >>
  /\ inventories' = << >>
  /\ all_resources' = all_resources
  /\ graph' = NoGraph
  /\ pc' = "parse"
  /\ UNCHANGED << variant, total, renderRaised >>

\* the main loop takes the next unit (03 line 268, 00 line 356, 01 line 443,
\* 04 line 408, 02 line 421 after a download that succeeded); 03 starts the
\* directory with an empty all_resources
NextUnit ==
  /\ pc = "next" /\ unitNo < total
  /\ files' \in Units(variant, IF variant = "v02"
                                THEN BoundedSeq(ChecklyItems, MaxBatchItems)
                                ELSE BatchTexts)
  /\ unitNo' = unitNo + 1
  /\ fileIdx' = 0
  /\ hcl' = NoOutcome
  /\ downgraded' = FALSE
  /\ resources' = << >>
  /\ inventories' = << >>
  /\ all_resources' = << >>
  /\ graph' = NoGraph
  /\ pc' = "parse"
  /\ UNCHANGED << variant, total, renderRaised >>

\* the note of a failed structured pass is printed and the lexical pass
\* follows (03 line 84, 04 lines 85-86); in 00 (line 94) and 01 (line 105)
\* the open() is inside the same try, so an unreadable file prints the note
\* too; 02 has no lexical pass
Downgraded(v, h) ==
  /\ v # "v02"
  /\ HclRaised(h) \/ (v \in {"v00", "v01"} /\ h.kind = "io")

\* a parse step that lets the exception of the structured pass escape
ParseFile_aborts ==
  /\ pc = "parse" /\ fileIdx < Len(files)
  /\ \E h \in Outcomes(variant, files[fileIdx + 1]) :
       /\ hcl' = h
       /\ resources' = IF HclRaised(h) THEN << >>
                       ELSE Parse(variant, files[fileIdx + 1], h)
  /\ downgraded' = (downgraded \/ Downgraded(variant, hcl'))
  /\ inventories' = Append(inventories, resources')
  /\ all_resources' = IF variant = "v03" THEN Merge(all_resources, resources')
                      ELSE all_resources
  /\ fileIdx' = fileIdx + 1
  /\ pc' = IF HclRaised(hcl') THEN "crashed"
           ELSE IF fileIdx' = Len(files) THEN "diagram" ELSE "parse"
  /\ UNCHANGED << variant, files, graph, total, unitNo, renderRaised >>

\* parse_terraform_file on the next file of the unit; 03 merges the result
\* into all_resources (lines 276-282)
ParseFile ==
  /\ pc = "parse" /\ fileIdx < Len(files)
  /\ \E h \in Outcomes(variant, files[fileIdx + 1]) :
       /\ hcl' = h
       /\ resources' = Parse(variant, files[fileIdx + 1], h)
  /\ downgraded' = (downgraded \/ Downgraded(variant, hcl'))
  /\ inventories' = Append(inventories, resources')
  /\ all_resources' = IF variant = "v03" THEN Merge(all_resources, resources')
                      ELSE all_resources
  /\ fileIdx' = fileIdx + 1
  /\ pc' = IF fileIdx' = Len(files) THEN "diagram" ELSE "parse"
  /\ UNCHANGED << variant, files, graph, total, unitNo, renderRaised >>

\* the graph the synthesizer of the variant makes of an inventory
Synthesize(v, res, order) ==
  CASE v = "v00" -> generate_architecture_diagram_00(res)
    [] v = "v01" -> generate_architecture_diagram_01(res, order)
    [] v = "v02" -> create_detailed_checkly_diagram(res, order)
    [] v = "v03" -> create_architecture_diagram(res)
    [] v = "v04" -> Diagram04(res)

Inventory == IF variant = "v03" THEN all_resources ELSE resources

\* what the run-time's iteration order of a set leaves open: in 01 the order
\* of the resource types, in 02 the locations that are kept
SetOrders(v, res) ==
  CASE v = "v01" -> Orders(TypesOf(res))
    [] v = "v02" /\ res # None -> KeptLocations(res)
    [] OTHER -> { << >> }

\* the synthesizer of a variant is given an inventory its parser can return:
\* the inventory of one file, or in 03 the one merged from the files of a
\* directory
InitSynthesis ==
  /\ variant \in Variants
  /\ \E unit \in Units(variant, IF variant = "v02" THEN ChecklyTexts ELSE Texts) :
       LET RECURSIVE merged(_)
           merged(n) ==
             IF n = 0 THEN { << >> }
             ELSE { Merge(all, Parse(variant, unit[n], h)) :
                      all \in merged(n - 1), h \in Outcomes(variant, unit[n]) }
       IN IF variant = "v03"
          THEN resources = << >> /\ all_resources \in merged(Len(unit))
          ELSE /\ resources \in { Parse(variant, unit[1], h) :
                                    h \in Outcomes(variant, unit[1]) }
               /\ all_resources = << >>
  /\ files = << >>
  /\ fileIdx = 0
  /\ hcl = NoOutcome
  /\ downgraded = FALSE
  /\ inventories = << >>
  /\ graph = NoGraph
  /\ renderRaised = FALSE
  /\ pc = "diagram"
  /\ total = 1
  /\ unitNo = 1

\* the synthesizer is applied to the inventory; the exit of its
\* with Diagram  calls the renderer, which raises or not, also when the
\* body of the  with  has raised
Diagram ==
  /\ pc = "diagram"
  /\ \E order \in SetOrders(variant, Inventory), ok \in BOOLEAN :
       /\ graph' = Synthesize(variant, Inventory, order)
       /\ renderRaised' = (graph'.drawn /\ ~ok)
  /\ pc' = "done"
  /\ UNCHANGED << variant, files, fileIdx, hcl, downgraded, resources,
                  inventories, all_resources, total, unitNo >>

Synthesis == InitSynthesis /\ [][Diagram]_vars

\* ------------------------------------------------------- the main loops
Unit == << files, fileIdx, hcl, downgraded, inventories, all_resources >>

\* 03, lines 284-299: a directory without resources is reported and skipped;
\* an exception of the classifier or of the renderer is caught nowhere
Render03 ==
  /\ variant = "v03" /\ pc = "diagram"
  /\ IF all_resources = << >>
     THEN /\ pc' = "next"
          /\ UNCHANGED << graph, renderRaised >>
     ELSE \E ok \in BOOLEAN :
            /\ graph' = create_architecture_diagram(all_resources)
            /\ renderRaised' = (renderRaised \/ (graph'.drawn /\ ~ok))
            /\ pc' = IF ok /\ ~graph'.raised THEN "next" ELSE "crashed"
  /\ UNCHANGED << variant, resources, total, unitNo, Unit >>

\* 00, lines 356-361: a file without resources is reported and skipped; an
\* exception is caught per file
Render00 ==
  /\ variant = "v00" /\ pc = "diagram"
  /\ \E ok \in BOOLEAN :
       /\ graph' = generate_architecture_diagram_00(resources)
       /\ renderRaised' = (renderRaised \/ (graph'.drawn /\ ~ok))
  /\ pc' = "next"
  /\ UNCHANGED << variant, resources, total, unitNo, Unit >>

ErrorDiagram == Graph(TRUE, Placeholder("Error"), << >>, << >>)

\* 01, lines 443-457: an exception is caught per file and an error diagram
\* is drawn in its place, outside any try
Render01 ==
  /\ variant = "v01" /\ pc = "diagram"
  /\ \E order \in Orders(TypesOf(resources)), ok \in BOOLEAN, errOk \in BOOLEAN :
       LET g == generate_architecture_diagram_01(resources, order)
           failed == g.raised \/ ~ok
       IN /\ graph' = IF failed THEN ErrorDiagram ELSE g
          /\ renderRaised' = (renderRaised \/ ~ok \/ (failed /\ ~errOk))
          /\ pc' = IF failed /\ ~errOk THEN "crashed" ELSE "next"
  /\ UNCHANGED << variant, resources, total, unitNo, Unit >>

\* 04, lines 419-420
Meaningful(res) ==
  SelectSeq(res, LAMBDA e : /\ e.type \notin {"variable", "output", "provider"}
                            /\ e.instances # << >>)

AlternativeUrls == 4

\* 04, lines 362-401: the urls are tried in turn from the i-th on; `before`
\* holds what the files parsed so far left behind (the outcome of the last
\* structured pass, the note of a fallback).  A url that answers with another
\* status than 200, raises, or has no terraform syntax is passed over; a file
\* is parsed with parse_terraform_file (line 388) and returned when it has an
\* instance
RECURSIVE try_alternative_files(_, _)
try_alternative_files(i, before) ==
  IF i > AlternativeUrls
  THEN { [found |-> FALSE, resources |-> << >>, hcl |-> b.hcl,
          downgraded |-> b.downgraded] : b \in before }
  ELSE LET syntax == { t \in BatchTexts :
                         \E k \in DOMAIN t : t[k].kw \in {"resource", "module", "provider"} }
           parsed == UNION { { [found |-> TRUE,
                                resources |-> parse_terraform_file_04(t, o),
                                hcl |-> o,
                                downgraded |-> (b.downgraded \/ Downgraded("v04", o))] :
                               o \in Outcomes("v04", t), b \in before } :
                             t \in syntax }
           hits == { p \in parsed :
                       \E k \in DOMAIN p.resources : p.resources[k].instances # << >> }
       IN hits \cup try_alternative_files(i + 1,
                      before \cup { [hcl |-> p.hcl, downgraded |-> p.downgraded] :
                                    p \in parsed \ hits })

\* 04, lines 416-462: without infrastructure resources main tries the
\* alternative files and returns when none has resources; an exception of
\* create_diagram is caught and ends main, one of create_diagram_data is not
\* caught
Render04 ==
  /\ variant = "v04" /\ pc = "diagram"
  /\ \E alt \in (IF Meaningful(resources) = << >>
                 THEN try_alternative_files(1, { [hcl |-> hcl, downgraded |-> downgraded] })
                 ELSE { [found |-> TRUE, resources |-> resources, hcl |-> hcl,
                         downgraded |-> downgraded] }),
        ok \in BOOLEAN :
       /\ resources' = IF alt.found THEN alt.resources ELSE resources
       /\ hcl' = alt.hcl
       /\ downgraded' = alt.downgraded
       /\ graph' = IF alt.found THEN Diagram04(alt.resources) ELSE graph
       /\ renderRaised' = (renderRaised \/ (alt.found /\ graph'.drawn /\ ~ok))
  /\ pc' = IF graph'.raised THEN "crashed" ELSE "next"
  /\ UNCHANGED << variant, total, unitNo, files, fileIdx, inventories, all_resources >>

\* 00 line 343, 01 line 430, 03 line 37: Repo.clone_from raises, inside no
\* try, and the script ends before its loop
CloneFails ==
  /\ variant \in {"v00", "v01", "v03"} /\ pc = "next" /\ unitNo = 0
  /\ pc' = "crashed"
  /\ UNCHANGED << variant, resources, graph, total, unitNo, renderRaised, Unit >>

\* 04, lines 42-43 and 408: the download answers with another status than
\* 200, the exception leaves main and no file is parsed
DownloadFails04 ==
  /\ variant = "v04" /\ pc = "next" /\ unitNo < total
  /\ unitNo' = unitNo + 1
  /\ pc' = "crashed"
  /\ UNCHANGED << variant, resources, graph, total, renderRaised, Unit >>

\* 02, lines 420-422: the download fails and main returns
DownloadFails02 ==
  /\ variant = "v02" /\ pc = "next" /\ unitNo < total
  /\ unitNo' = unitNo + 1
  /\ pc' = "done"
  /\ UNCHANGED << variant, resources, graph, total, renderRaised, Unit >>

\* 02, lines 424-467: main returns when the parse gave None; the diagram is
\* drawn outside any try
Render02 ==
  /\ variant = "v02" /\ pc = "diagram"
  /\ IF resources = None
     THEN /\ pc' = "next"
          /\ UNCHANGED << graph, renderRaised >>
     ELSE \E kept \in KeptLocations(resources), ok \in BOOLEAN :
            /\ graph' = create_detailed_checkly_diagram(resources, kept)
            /\ renderRaised' = (renderRaised \/ ~ok)
            /\ pc' = IF ok THEN "next" ELSE "crashed"
  /\ UNCHANGED << variant, resources, total, unitNo, Unit >>

\* the loop has no unit left
Finish ==
  /\ pc = "next" /\ unitNo = total
  /\ pc' = "done"
  /\ UNCHANGED << variant, resources, graph, total, unitNo, renderRaised, Unit >>

\* one unit, from its first file to the end of the script
NextCalls ==
  \/ ParseFile
  \/ Render00 \/ Render01 \/ Render02 \/ Render03 \/ Render04 \/ Finish

Spec == InitCalls /\ [][NextCalls]_vars

NextBatch ==
  \/ CloneFails \/ NextUnit \/ DownloadFails02 \/ DownloadFails04 \/ ParseFile
  \/ Render00 \/ Render01 \/ Render02 \/ Render03 \/ Render04 \/ Finish

Batch == InitBatch /\ [][NextBatch]_vars

\* the position of the interpreter in the run; every step of the loop moves
\* it, and it can move exactly when the loop has a step to take
position == << pc, unitNo, fileIdx >>

Advance ==
  \/ /\ pc = "next" /\ unitNo < total
     /\ pc' = "parse" /\ unitNo' = unitNo + 1 /\ fileIdx' = 0
  \/ /\ pc = "next" /\ unitNo < total
     /\ pc' \in {"done", "crashed"} /\ unitNo' = unitNo + 1 /\ fileIdx' = fileIdx
  \/ /\ pc = "next" /\ unitNo = 0
     /\ pc' = "crashed" /\ unitNo' = unitNo /\ fileIdx' = fileIdx
  \/ /\ pc = "parse" /\ fileIdx < Len(files)
     /\ pc' \in {"parse", "diagram"} /\ unitNo' = unitNo /\ fileIdx' = fileIdx + 1
  \/ /\ pc = "diagram"
     /\ pc' \in {"next", "crashed"} /\ unitNo' = unitNo /\ fileIdx' = fileIdx
  \/ /\ pc = "next" /\ unitNo = total
     /\ pc' = "done" /\ unitNo' = unitNo /\ fileIdx' = fileIdx

\* the interpreter runs the loop on: a step that can be taken is taken
FairBatch == Batch /\ WF_position(Advance)
\* ------------------------------------------------------------- properties
\* the declarations (resource_type, instance_name) of an inventory, which is
\* a flat list in 00 and 01 and a mapping type -> instances in 03 and 04
Declarations(v, res) ==
  IF v \in {"v00", "v01"}
  THEN [i \in 1..Len(res) |-> << res[i].type, res[i].name >>]
  ELSE Flatten([k \in 1..Len(res) |->
         [i \in 1..Len(res[k].instances) |->
            << res[k].type, res[k].instances[i].name >>]])

ItemType(v, item) ==
  CASE v = "v03" -> item.label[1]
    [] v = "v04" -> item.resource_type
    [] OTHER -> item.type

ItemName(v, item) ==
  CASE v = "v03" -> item.label[2]
    [] OTHER -> item.name

\* the entries of a classification, each with the category that holds it
Categorized(v, comps) ==
  Flatten([k \in 1..Len(comps) |->
    [i \in 1..Len(comps[k].items) |->
       [category |-> comps[k].category,
        type |-> ItemType(v, comps[k].items[i]),
        name |-> ItemName(v, comps[k].items[i])]]])

Count(s, x) == Cardinality({ i \in DOMAIN s : s[i] = x })

\* the category the classifier of a variant gives a resource type
CategoryOf(v, t) ==
  CASE v = "v00" -> MapGet(category_map_00, t)
    [] v = "v01" -> MapGet(category_map_01, t)
    [] v = "v03" -> Entries03([type |-> t, instances |-> << >>]).category
    [] v = "v04" -> Classify04(t).category

\* the type has no table entry and no partial-matching rule applies to it
Unknown(v, t) ==
  CASE v = "v00" -> IndexOf(category_map_00, t) = 0
    [] v = "v01" -> IndexOf(category_map_01, t) = 0
    [] v = "v03" -> IndexOf(resource_mappings_03, t) = 0
    [] v = "v04" -> /\ IndexOf(get_resource_mapping, t) = 0
                    /\ PartialFrom(t, 1) = 0
                    /\ Keyword04(t, "none") = "none"

Classified == Categorized(variant, graph.components)

\* the variants that classify resource types into categories
Classifying == variant \in {"v00", "v01", "v03", "v04"}

\* C1: after classification every declaration of the inventory is in the
\* category lists as often as it is in the inventory, and the lists hold
\* nothing else (variants 00, 03, 04).
C1_EveryDeclarationOnce ==
  (pc = "done" /\ variant \in {"v00", "v03", "v04"}) =>
    LET decls == Declarations(variant, Inventory)
        found == [i \in 1..Len(Classified) |->
                    << Classified[i].type, Classified[i].name >>]
    IN /\ Len(found) = Len(decls)
       /\ \A i \in 1..Len(decls) : Count(found, decls[i]) = Count(decls, decls[i])

\* C2: when the structured pass raises, also after it has collected
\* declarations, parse_terraform_file returns what parse_with_regex returns
\* on the same text (variants 03 and 04).
C2_FallbackIsLexical ==
  (variant \in {"v03", "v04"} /\ fileIdx >= 1 /\ pc \in {"parse", "diagram"}
     /\ HclRaised(hcl)) =>
    resources = IF variant = "v03" THEN parse_with_regex_03(files[fileIdx])
                ELSE parse_with_regex_04(files[fileIdx])

\* a structured pass that had collected a declaration before it raised, on a
\* text the lexical pass reads differently
C2_Witness ==
  /\ variant = "v03" /\ fileIdx >= 1 /\ pc \in {"parse", "diagram"}
  /\ hcl.kind = "items" /\ hcl.at >= 2
  /\ HclPartial(files[fileIdx], hcl) # << >>
  /\ resources = parse_with_regex_03(files[fileIdx])
  /\ resources # << >>

NodeIds(g) == { g.nodes[i].id : i \in 1..Len(g.nodes) }

\* C3: both ends of every edge of a synthesized graph are nodes of that
\* graph, and an edge between two categories exists only when both have a
\* node (variants 03 and 04).
C3_NoDanglingEdges ==
  (pc = "done" /\ variant \in {"v03", "v04"}) =>
    \A i \in 1..Len(graph.edges) :
      /\ graph.edges[i].from \in NodeIds(graph)
      /\ graph.edges[i].to \in NodeIds(graph)

\* a graph with an edge, and a rule skipped because only its source
\* category has nodes
C3_Witness ==
  /\ pc = "done" /\ variant = "v03"
  /\ graph.edges # << >>
  /\ NodeId("compute", 1) \in NodeIds(graph)
  /\ NodeId("storage", 1) \notin NodeIds(graph)

\* C4: for two files of a directory, every category of the classification
\* of the merged inventory holds the entries of the first file's
\* classification followed by those of the second file's (variant 03).
C4_MergeThenClassify ==
  (pc = "done" /\ variant = "v03" /\ Len(files) = 2) =>
    \A k \in 1..Len(Categories03) :
      CatItems(get_diagram_components(all_resources), Categories03[k])
        = CatItems(get_diagram_components(inventories[1]), Categories03[k])
          \o CatItems(get_diagram_components(inventories[2]), Categories03[k])

\* C5: every entry whose type has no table entry and no
\* partial-matching rule is in the category `other`.
C5_UnknownIsOther ==
  (pc = "done" /\ Classifying) =>
    \A i \in 1..Len(Classified) :
      Unknown(variant, Classified[i].type) => Classified[i].category = "other"

FixedCategories ==
  {"network", "compute", "database", "storage", "security", "integration",
   "monitoring", "other"}

\* C6: the category of every classified entry is one of network,
\* compute, database, storage, security, integration, monitoring, other.
C6_FixedCategories ==
  (pc = "done" /\ Classifying) =>
    \A i \in 1..Len(Classified) : Classified[i].category \in FixedCategories

\* C7: on an empty inventory the synthesizer makes a graph of exactly one
\* placeholder node and no edge (variants 03 and 04).
C7_EmptyGivesPlaceholder ==
  (pc = "done" /\ variant \in {"v03", "v04"} /\ Inventory = << >>) =>
    /\ graph.drawn
    /\ Len(graph.nodes) = 1
    /\ graph.nodes[1].id = NodeId("placeholder", 1)
    /\ graph.edges = << >>

C7_Witness ==
  /\ pc = "done" /\ variant = "v04" /\ Inventory = << >>
  /\ graph.nodes = Placeholder("No Resources Found")
  /\ \A k \in 1..Len(graph.components) : graph.components[k].items = << >>

\* every declaration of a non-empty inventory classifies into `other`
AllOther(v, res) ==
  /\ res # << >>
  /\ \A i \in 1..Len(res) : CategoryOf(v, res[i].type) = "other"

\* C8 as stated: an inventory that classifies entirely into `other` gives a
\* graph of a single node and no edge.
C8_SinglePlaceholder ==
  (pc = "done" /\ variant \in {"v00", "v01", "v03"} /\ AllOther(variant, Inventory)) =>
    /\ Len(graph.nodes) = 1
    /\ graph.edges = << >>

\* the number of nodes 03 makes of an entry of the inventory
Nodes03(entry) ==
  IF IndexOf(resource_mappings_03, entry.type) # 0 THEN Len(entry.instances) ELSE 1

RECURSIVE Sum(_, _)
Sum(f, n) == IF n = 0 THEN 0 ELSE Sum(f, n - 1) + f[n]

\* C8: an inventory that classifies entirely into `other` gives a graph
\* that is not empty: in 03 the nodes of the category `other` (one per
\* unrecognised type) and no edge; in 00 one generic node per declaration,
\* at most 5, with an edge from the first to each other one; in 01 one
\* generic node per distinct type, at most 5, chained one to the next.
C8_GenericNodes ==
  (pc = "done" /\ variant \in {"v00", "v01", "v03"} /\ AllOther(variant, Inventory)) =>
    LET n == Len(graph.nodes)
    IN /\ graph.drawn
       /\ n >= 1
       /\ CASE variant = "v03" ->
                 /\ n = Sum([i \in 1..Len(Inventory) |-> Nodes03(Inventory[i])],
                            Len(Inventory))
                 /\ \A i \in 1..n : graph.nodes[i].id = NodeId("other", i)
                 /\ graph.edges = << >>
            [] variant = "v00" ->
                 /\ n = Min(Len(Inventory), GenericLimit)
                 /\ \A i \in 1..n : graph.nodes[i].class = "General"
                 /\ graph.edges = [i \in 1..(n - 1) |->
                                     [from |-> graph.nodes[1].id,
                                      to |-> graph.nodes[i + 1].id]]
            [] variant = "v01" ->
                 /\ n = Min(Cardinality(TypesOf(Inventory)), GenericLimit)
                 /\ \A i \in 1..n : graph.nodes[i].class = "General"
                 /\ graph.edges = [i \in 1..(n - 1) |->
                                     [from |-> graph.nodes[i].id,
                                      to |-> graph.nodes[i + 1].id]]

\* more unrecognised declarations than the fallback of 00 shows
C8_Witness ==
  /\ pc = "done" /\ variant = "v00" /\ AllOther("v00", Inventory)
  /\ Len(Inventory) > GenericLimit
  /\ Len(graph.nodes) = GenericLimit
  /\ Len(graph.edges) = GenericLimit - 1

\* what the lexical extractor of a variant returns on a text
Lexical(v, content, h) ==
  CASE v = "v00" -> parse_terraform_file_regex_00(content, h)
    [] v = "v01" -> parse_terraform_with_regex_01(content, h)
    [] v = "v03" -> parse_with_regex_03(content)
    [] v = "v04" -> parse_with_regex_04(content)

Processed == pc = "done" /\ unitNo = total

\* C9: a unit whose structured parse raises is parsed lexically, and the
\* run goes on: unless the renderer raises, the loop ends with every unit
\* of the batch taken and processed.
C9_ParseFailureNeverAborts ==
  /\ [](Classifying /\ pc \in {"parse", "diagram"} /\ fileIdx >= 1 /\ HclRaised(hcl)
          => resources = Lexical(variant, files[fileIdx], hcl))
  /\ [](downgraded => <>(Processed \/ renderRaised))

\* a unit parsed lexically after a failure has been drawn and units remain
C9_Witness ==
  /\ pc = "next" /\ downgraded /\ graph.drawn
  /\ unitNo >= 1 /\ unitNo < total
  /\ ~renderRaised

\* C10: the unit the loop has just finished, when its inventory is empty,
\* has handed a graph of one placeholder node and no edge to the renderer.
C10_EmptyUnitGetsPlaceholder ==
  (Classifying /\ pc = "next" /\ unitNo >= 1 /\ Inventory = << >>) =>
    /\ graph.drawn
    /\ Len(graph.nodes) = 1
    /\ graph.edges = << >>

\* ------------------------------------------------------------ C11 .. C20
SamePair(e, f) == e.from.category = f.from.category /\ e.to.category = f.to.category

\* C11: no two edges of a synthesized graph join the same ordered
\* pair of categories (variants 01, 03 and 04; the chain between the generic
\* nodes of 01 joins no categories and is left out).
C11_OneEdgePerCategoryPair ==
  (pc = "done" /\ variant \in {"v01", "v03", "v04"}) =>
    \A i, j \in 1..Len(graph.edges) :
      (graph.edges[i].from.category # "generic"
         /\ SamePair(graph.edges[i], graph.edges[j])) => i = j

Successors(E, S) == { e[2] : e \in { x \in E : x[1] \in S } }

\* what a walk of at most k edges of E reaches from the set S
RECURSIVE ReachFrom(_, _, _)
ReachFrom(E, S, k) ==
  IF k = 0 THEN S ELSE ReachFrom(E, S \cup Successors(E, S), k - 1)

Acyclic(E) == \A e \in E : e[1] \notin ReachFrom(E, {e[2]}, Cardinality(E))

EdgeSet(g) == { << g.edges[i].from, g.edges[i].to >> : i \in 1..Len(g.edges) }

\* C12: a synthesized graph of variants 03 and 04 has no cycle: no walk along
\* its edges returns to the node it started from, and the rule list of the
\* variant itself, read as edges between categories, has no cycle either.
C12_NoCycle ==
  (pc = "done" /\ variant \in {"v03", "v04"}) =>
    /\ Acyclic(EdgeSet(graph))
    /\ Acyclic(Range(IF variant = "v03" THEN connection_patterns_03
                     ELSE connection_patterns_04))

\* a graph with a walk of two edges, network -> compute -> database
C12_Witness ==
  /\ pc = "done" /\ variant \in {"v03", "v04"}
  /\ << NodeId("network", 1), NodeId("compute", 1) >> \in EdgeSet(graph)
  /\ << NodeId("compute", 1), NodeId("database", 1) >> \in EdgeSet(graph)

\* the structured pass on the file just read did not finish
StructuredFailed == fileIdx >= 1 /\ hcl.kind \in {"loads", "items", "io"}

\* C13: when the structured extraction of a file fails, the structured
\* extractor of 00 and 01 ends in an error for its caller and hands back no
\* inventory value, empty or partial, in place of the failure.
C13_FailureIsRaised ==
  (variant \in {"v00", "v01"} /\ pc \in {"parse", "diagram"} /\ StructuredFailed) =>
    hcl2_call(files[fileIdx], hcl).raised

\* the lexical extractor was called on the file just read
LexicalRan ==
  /\ Classifying /\ fileIdx >= 1 /\ pc \in {"parse", "diagram"}
  /\ IF variant \in {"v00", "v01"} THEN hcl.kind # "ok"
     ELSE HclRaised(hcl) \/ hcl.kind = "unavailable"

\* the headers of a text that the patterns of a variant match
Matching(v, content, h) ==
  CASE v = "v03" -> SelectSeq(content, LAMBDA it : it.kw = "resource")
    [] v = "v04" ->
         SelectSeq(content,
           LAMBDA it : \/ it.kw \in {"resource", "data", "variable", "output", "provider"}
                       \/ it.kw = "module" /\ it.src # << >>)
    [] v = "v00" ->
         IF h.kind = "io" THEN << >>
         ELSE SelectSeq(content,
                LAMBDA it : it.kw = "resource" /\ it.ctx \notin {"hash", "block"})
    [] v = "v01" ->
         IF h.kind = "io" THEN << >>
         ELSE SelectSeq(content, LAMBDA it : it.kw = "resource" /\ it.ctx = "code")

\* C14: the lexical extractor returns an inventory for every text, with one
\* declaration for each header its patterns match, and so the empty
\* inventory when no header of the text matches (or the file cannot be read).
C14_LexicalIsTotal ==
  LexicalRan =>
    LET found == Lexical(variant, files[fileIdx], hcl)
        matching == Matching(variant, files[fileIdx], hcl)
    IN /\ resources = found
       /\ Len(Declarations(variant, found)) = Len(matching)
       /\ matching = << >> => found = << >>

\* the lexical extractor of 03 on a text whose headers match none of its
\* patterns
C14_Witness ==
  /\ LexicalRan /\ variant = "v03"
  /\ files[fileIdx] # << >>
  /\ Matching(variant, files[fileIdx], hcl) = << >>
  /\ resources = << >>

Edge(a, b) == [from |-> NodeId(a, 1), to |-> NodeId(b, 1)]

\* the inventory declares one aws_lb, one aws_instance, one aws_db_instance
ThreeTier ==
  LET decls == Declarations(variant, Inventory)
  IN /\ Len(decls) = 3
     /\ { decls[i][1] : i \in 1..3 } = {"aws_lb", "aws_instance", "aws_db_instance"}

\* C16: for an inventory of exactly one aws_lb, one aws_instance and one
\* aws_db_instance, variants 03 and 04 populate exactly the categories
\* network, compute and database and give a graph of exactly 3 nodes and the
\* two edges network -> compute and compute -> database, in this order.
C16_ThreeTierGraph ==
  (pc = "done" /\ variant \in {"v03", "v04"} /\ ThreeTier) =>
    /\ { Classified[i].category : i \in 1..Len(Classified) }
         = {"network", "compute", "database"}
    /\ Len(Classified) = 3
    /\ Len(graph.nodes) = 3
    /\ { graph.nodes[i].id.category : i \in 1..3 } = {"network", "compute", "database"}
    /\ graph.edges = << Edge("network", "compute"), Edge("compute", "database") >>

\* the three-tier inventory synthesized by 04
C16_Witness ==
  /\ pc = "done" /\ variant = "v04" /\ ThreeTier
  /\ Len(graph.edges) = 2

InstancesOf(res, t) == IF IndexOf(res, t) = 0 THEN << >> ELSE res[IndexOf(res, t)].instances

Types(res) == { res[k].type : k \in 1..Len(res) }

\* C17: the merged inventory of a directory (variant 03) has, for every
\* resource type, the concatenation in file order of the sequences the files
\* read so far have for that type, and no other type: a (type, name) declared
\* in two files is there twice, nothing is dropped, merged or reordered.
C17_MergeConcatenates ==
  (variant = "v03" /\ pc \in {"parse", "diagram", "done"}) =>
    /\ Len(inventories) = fileIdx
    /\ Types(all_resources) = UNION { Types(inventories[i]) : i \in 1..fileIdx }
    /\ \A t \in Types(all_resources) :
         InstancesOf(all_resources, t)
           = Flatten([i \in 1..fileIdx |-> InstancesOf(inventories[i], t)])

\* two files that declare the same (type, name): the merged sequence holds
\* the declaration twice
C17_Witness ==
  /\ variant = "v03" /\ fileIdx = 2
  /\ \E t \in Types(inventories[1]) \cap Types(inventories[2]) :
       /\ Len(InstancesOf(inventories[1], t)) = 1
       /\ InstancesOf(inventories[1], t) = InstancesOf(inventories[2], t)
       /\ Len(InstancesOf(all_resources, t)) = 2

NoRepeat(s) == \A i, j \in 1..Len(s) : s[i] = s[j] => i = j

\* C18: the inventory that one parse pass of variant 03 returns for one file
\* holds no (resource_type, instance_name) pair twice, also when the text
\* repeats a resource header.
C18_UniquePairs ==
  (variant = "v03" /\ fileIdx >= 1 /\ pc \in {"parse", "diagram"}) =>
    NoRepeat(Declarations(variant, resources))

\* the rule list as the claim gives it
StatedRules ==
  << << "network", "security" >>, << "security", "compute" >>,
     << "network", "compute" >>, << "compute", "database" >>,
     << "compute", "storage" >>, << "integration", "compute" >>,
     << "monitoring", "compute" >> >>

\* the rule list each variant walks
OwnRules(v) ==
  IF v = "v03"
  THEN << << "network", "security" >>, << "security", "compute" >>,
          << "network", "compute" >>, << "compute", "database" >>,
          << "compute", "storage" >>, << "other", "compute" >> >>
  ELSE << << "network", "security" >>, << "security", "compute" >>,
          << "network", "compute" >>, << "compute", "database" >>,
          << "compute", "storage" >>, << "integration", "compute" >>,
          << "network", "integration" >>, << "monitoring", "compute" >>,
          << "application", "compute" >> >>

Populated(g) == { g.nodes[i].id.category : i \in 1..Len(g.nodes) }

\* the ordered category pairs of the edges of a graph
EdgePairs(g) ==
  [i \in 1..Len(g.edges) |-> << g.edges[i].from.category, g.edges[i].to.category >>]

Applied(rules, g) ==
  SelectSeq(rules, LAMBDA r : r[1] \in Populated(g) /\ r[2] \in Populated(g))

\* C19 as stated: the edges of a synthesized graph of 03 or 04 are, in order,
\* the rules of the list network->security, security->compute,
\* network->compute, compute->database, compute->storage,
\* integration->compute, monitoring->compute with both categories populated.
C19_StatedRules ==
  (pc = "done" /\ variant \in {"v03", "v04"}) =>
    EdgePairs(graph) = Applied(StatedRules, graph)

\* C19: the edges of a synthesized graph are, in order, the rules of the
\* variant's own list whose source and target categories are both populated:
\* in 03 the stated list without the integration and monitoring rules and
\* with other->compute at the end, in 04 the stated list with
\* network->integration after integration->compute and application->compute
\* at the end.
C19_OwnRules ==
  (pc = "done" /\ variant \in {"v03", "v04"}) =>
    EdgePairs(graph) = Applied(OwnRules(variant), graph)

\* a graph of 04 with an edge of a rule that the stated list does not have
C19_Witness ==
  /\ pc = "done" /\ variant = "v04"
  /\ \E i \in 1..Len(graph.edges) : EdgePairs(graph)[i] = << "application", "compute" >>

FirstNodes(e) == e.from.idx = 1 /\ e.to.idx = 1

\* C20: every edge that a rule between two categories creates in
\* a synthesized graph of 00, 03 or 04 goes from the first node of its source
\* category to the first node of its target category (the edges between the
\* generic nodes of 00 follow no rule and are left out).
C20_FirstToFirst ==
  (pc = "done" /\ variant \in {"v00", "v03", "v04"}) =>
    \A i \in 1..Len(graph.edges) :
      graph.edges[i].from.category # "generic" => FirstNodes(graph.edges[i])

\* ------------------------------------------------------------ C21 .. C30
\* the groups of instances that 00 and 03 turn into nodes: the node key and
\* the number of instances behind it
Groups(v, comps) ==
  IF v = "v03"
  THEN [k \in 1..Len(NonEmpty(comps)) |->
          [key |-> NonEmpty(comps)[k].category, n |-> Len(NonEmpty(comps)[k].items)]]
  ELSE SelectSeq(
         << [key |-> "load_balancer",
             n |-> Len(OfTypes(comps, "networking", {"aws_lb", "aws_alb", "aws_elb"}))],
            [key |-> "compute",
             n |-> Len(OfTypes(comps, "compute", {"aws_instance", "aws_launch_template"}))],
            [key |-> "lambda",
             n |-> Len(OfTypes(comps, "compute", {"aws_lambda_function"}))],
            [key |-> "s3", n |-> Len(OfTypes(comps, "storage", {"aws_s3_bucket"}))] >>,
         LAMBDA g : g.n > 0)

\* 02: the checks behind the API nodes and behind the browser nodes
Groups02(res) ==
  SelectSeq(
    << [key |-> "api_check",
        n |-> Len(SelectSeq(CatItems(res, "checks"), LAMBDA ch : ch.type # "BROWSER"))],
       [key |-> "browser_check",
        n |-> Len(SelectSeq(CatItems(res, "checks"), LAMBDA ch : ch.type = "BROWSER"))] >>,
    LAMBDA g : g.n > 0)

\* the groups behind the graph just synthesized
Grouped ==
  IF variant = "v02" THEN Groups02(resources) ELSE Groups(variant, graph.components)

NodesOf(g, key) == SelectSeq(g.nodes, LAMBDA nd : nd.id.category = key)

\* the nodes of a group under the display cap c: one per instance up to c,
\* one node labelled with the count above c
Capped(g, grp, c) ==
  LET nds == NodesOf(g, grp.key)
  IN IF grp.n <= c THEN Len(nds) = grp.n
     ELSE /\ Len(nds) = 1
          /\ \E i \in 1..Len(nds[1].label) :
               nds[1].label[i] \in {ToString(grp.n), Count02(grp.n, " total")}

\* C21: there is a display cap c such that every group of n instances of a
\* synthesized graph of 00, 02 or 03 has n nodes when n <= c and one node
\* labelled with the count n when n > c.
C21_DisplayCap ==
  (pc = "done" /\ variant \in {"v00", "v02", "v03"} /\ graph.drawn
     /\ Grouped # << >>) =>
    \E c \in 1..(Len(graph.nodes) + 1) :
      \A k \in 1..Len(Grouped) : Capped(graph, Grouped[k], c)

\* the resource headers of a text with a given (type, name), outside comments
Uncommented(content, t, n) ==
  SelectSeq(content, LAMBDA it : it.kw = "resource" /\ it.ctx = "code"
                                  /\ it.type = t /\ it.name = n)

\* C22: the inventory the lexical extractor of 01, 03 or 04 returns has a
\* declaration for a resource header exactly as often as that header occurs
\* outside comments: a header after # or //, or between /* and */, gives none.
C22_CommentsAreStripped ==
  (LexicalRan /\ variant \in {"v01", "v03", "v04"} /\ hcl.kind # "io") =>
    \A i \in 1..Len(files[fileIdx]) :
      LET it == files[fileIdx][i]
      IN it.kw = "resource" =>
           Count(Declarations(variant, resources), << it.type, it.name >>)
             = Len(Uncommented(files[fileIdx], it.type, it.name))

\* the module blocks of the file just read whose source the pattern captures
Modules == SelectSeq(files[fileIdx], LAMBDA it : it.kw = "module" /\ it.src # << >>)

\* C23 as stated: every module block whose source is captured is declared
\* under the type module_<last path segment of the source>.
C23_TypeFromSource ==
  (LexicalRan /\ variant = "v04") =>
    \A i \in 1..Len(Modules) :
      << "module_" \o Modules[i].src[Len(Modules[i].src)], Modules[i].name >>
        \in Range(Declarations(variant, resources))

\* C23: a module block whose captured source contains a "/" is declared
\* under the type module_<last path segment of the source>; one whose
\* source has no "/" is declared under module_<name of the module>.
C23_TypeFromSourcePath ==
  (LexicalRan /\ variant = "v04") =>
    \A i \in 1..Len(Modules) :
      LET m == Modules[i]
          t == IF Len(m.src) > 1 THEN "module_" \o m.src[Len(m.src)]
               ELSE "module_" \o m.name
      IN /\ << t, m.name >> \in Range(Declarations(variant, resources))
         /\ \A d \in Range(Declarations(variant, resources)) : d[2] = m.name => d[1] = t

\* a module whose type comes from its source and differs from its name
C23_Witness ==
  /\ LexicalRan /\ variant = "v04"
  /\ \E i \in 1..Len(Modules) :
       /\ Len(Modules[i].src) > 1
       /\ Modules[i].src[Len(Modules[i].src)] # Modules[i].name
       /\ << "module_" \o Modules[i].src[Len(Modules[i].src)], Modules[i].name >>
            \in Range(Declarations(variant, resources))

\* C24: in 04 a resource type without an exact table entry that partially
\* matches table entries is given the category of the first matching entry
\* in table order, whatever keywords its name contains.
C24_FirstPartialMatchWins ==
  (pc = "done" /\ variant = "v04") =>
    \A i \in 1..Len(Classified) :
      LET t == Classified[i].type
      IN (IndexOf(get_resource_mapping, t) = 0 /\ PartialFrom(t, 1) # 0) =>
           Classified[i].category = get_resource_mapping[PartialFrom(t, 1)].category

\* the table a variant looks a type up in
Table(v) == IF v = "v03" THEN resource_mappings_03 ELSE get_resource_mapping

\* C25: in 03 and 04 a resource type with an exact entry in the lookup table
\* is given the category of that entry, also when its name contains a
\* keyword of another category.
C25_ExactEntryWins ==
  (pc = "done" /\ variant \in {"v03", "v04"}) =>
    \A i \in 1..Len(Classified) :
      LET k == IndexOf(Table(variant), Classified[i].type)
      IN k # 0 => Classified[i].category = Table(variant)[k].category

\* a type of 04 with an exact entry whose name holds the keyword `instance`
\* of the category compute, classified into the database category of its entry
C25_Witness ==
  /\ pc = "done" /\ variant = "v04"
  /\ \E i \in 1..Len(Classified) :
       LET k == IndexOf(get_resource_mapping, Classified[i].type)
       IN /\ k # 0
          /\ Contains(Classified[i].type, "instance")
          /\ get_resource_mapping[k].category = "database"
          /\ Classified[i].category = "database"

\* C26: in a batch run of 00, 01 or 03 a failure of the renderer on one unit
\* never ends the run while units are left to process.
C26_RenderFailureNeverAborts ==
  (variant \in {"v00", "v01", "v03"} /\ renderRaised /\ unitNo < total) =>
    pc # "crashed"

\* what the structured pass of a variant collects from a text it finishes
Structured(v, content) ==
  IF v \in {"v00", "v01"} THEN HclFlat(content)
  ELSE HclCollect(<< >>, HclBlocks(content), Len(HclBlocks(content)))

\* C27: when the structured pass finishes on a file without raising,
\* parse_terraform_file of 00, 01 and 03 returns what that pass collected,
\* also when it collected nothing.
C27_StructuredResultIsKept ==
  (variant \in {"v00", "v01", "v03"} /\ fileIdx >= 1 /\ pc \in {"parse", "diagram"}
     /\ hcl.kind = "ok") =>
    resources = Structured(variant, files[fileIdx])

\* the keys the classifier of a variant initialises its category mapping with
Keys(v) ==
  CASE v = "v00" -> Range(Categories00)
    [] v = "v01" -> Range(Categories01)
    [] v = "v03" -> Range(Categories03)
    [] v = "v04" -> Range(Categories04)

\* the categories the lookup table of a variant can give
TableCategories(v) ==
  CASE v = "v00" -> { category_map_00[k].category : k \in 1..Len(category_map_00) }
    [] v = "v01" -> { category_map_01[k].category : k \in 1..Len(category_map_01) }
    [] v = "v03" -> { resource_mappings_03[k].category : k \in 1..Len(resource_mappings_03) }
    [] v = "v04" -> { get_resource_mapping[k].category : k \in 1..Len(get_resource_mapping) }

\* the categories the default and the keyword patterns can give
OtherCategories(v) ==
  IF v = "v04"
  THEN {"application", "database", "network", "compute", "storage", "security"}
  ELSE {"other"}

\* C28: every category the lookup table, the default, the partial matching
\* or the keyword patterns of a variant can give is a key of the category
\* mapping the classifier initialises, and so is the category of every type
\* of the inventory: classification never meets a missing key.
C28_CategoryKeyExists ==
  Classifying =>
    /\ TableCategories(variant) \cup OtherCategories(variant) \subseteq Keys(variant)
    /\ \A i \in 1..Len(Inventory) : CategoryOf(variant, Inventory[i].type) \in Keys(variant)
    /\ pc = "done" =>
         /\ ~Raised(graph.components)
         /\ \A i \in 1..Len(Classified) : HasCat(graph.components, Classified[i].category)

\* a type of 04 without table entry that a keyword pattern classifies
C28_Witness ==
  /\ pc = "done" /\ variant = "v04"
  /\ \E i \in 1..Len(Classified) :
       /\ IndexOf(get_resource_mapping, Classified[i].type) = 0
       /\ PartialFrom(Classified[i].type, 1) = 0
       /\ Classified[i].category \notin {"application", "config"}
       /\ HasCat(graph.components, Classified[i].category)

\* the declarations of the per-file inventories of the current directory, in
\* file order
Parsed == Flatten([i \in 1..Len(inventories) |-> Declarations("v03", inventories[i])])

\* C29: in a batch run of 03 the inventory of the directory being processed
\* holds exactly the declarations parsed from the files of that directory
\* read so far, each as often as it was parsed, whatever the directories
\* before it declared; every per-file inventory is still a result of the
\* parser on its file; and a graph drawn for the directory is the graph of
\* that inventory.
C29_DirectoryIsolated ==
  (variant = "v03" /\ unitNo >= 1 /\ pc \in {"parse", "diagram", "next", "crashed"}) =>
    /\ Len(inventories) = fileIdx
    /\ Len(Declarations("v03", all_resources)) = Len(Parsed)
    /\ \A d \in Range(Parsed) :
         Count(Declarations("v03", all_resources), d) = Count(Parsed, d)
    /\ \A i \in 1..fileIdx :
         \E h \in Outcomes("v03", files[i]) :
           inventories[i] = parse_terraform_file_03(files[i], h)
    /\ graph.drawn => graph = create_architecture_diagram(all_resources)

\* the second directory of a run, parsed into a non-empty inventory and drawn
C29_Witness ==
  /\ variant = "v03" /\ unitNo = 2 /\ pc = "next"
  /\ all_resources # << >> /\ graph.drawn

LabelOf(g, id) == (CHOOSE nd \in Range(g.nodes) : nd.id = id).label

NodeLabels(g) == { g.nodes[i].label : i \in 1..Len(g.nodes) }

\* the edges of a graph as pairs of node labels
LabelEdges(g) ==
  { << LabelOf(g, g.edges[i].from), LabelOf(g, g.edges[i].to) >> : i \in 1..Len(g.edges) }

\* C30: the graph synthesized from an inventory by 01, 02 or 03 has the same
\* node labels and the same edges between them whatever order the runtime
\* iterates the set of resource types (01) or of locations (02) in: a second
\* run on the same inventory gives the same nodes and edges.
C30_SynthesisIsDeterministic ==
  (pc = "done" /\ variant \in {"v01", "v02", "v03"} /\ graph.drawn) =>
    \A o \in SetOrders(variant, Inventory) :
      LET g == Synthesize(variant, Inventory, o)
      IN /\ NodeLabels(g) = NodeLabels(graph)
         /\ LabelEdges(g) = LabelEdges(graph)
====
